---------------------------- MODULE Spec2Model ----------------------------
(***************************************************************************)
(* A model of the Vancouver heat-vulnerability pipeline (scripts/01..05).  *)
(*                                                                         *)
(* Values.  A table cell is either null (pandas NaN / pd.NA) or a float.   *)
(* Floats are modelled exactly, as reduced fractions <<n, d>> with d > 0;  *)
(* the two IEEE infinities are <<1, 0>> and <<-1, 0>>; NaN is null, as     *)
(* pandas treats it.  Rounding of binary floating point is not modelled.   *)
(*                                                                         *)
(* Geometry.  The plane is a strip of cells (Cells) of equal area in the   *)
(* equal-area CRS; a polygon is a non-empty set of cells, a point lies in  *)
(* one cell, the area of a polygon is its number of cells and the          *)
(* intersection of two polygons is the intersection of their cell sets.    *)
(* A CRS change re-expresses the same cells and is not a state change.     *)
(***************************************************************************)
EXTENDS Integers, Sequences, FiniteSets, TLC

VARIABLES
    pc,             \* which operation of the specification at hand has run
    rc,             \* the exit status of the last run of each stage (-1: never run)
    \* raw inputs (data_raw/)
    da_shp,         \* the country-wide unit polygons
    admin_shp,      \* the regional administrative boundaries
    census_csv,     \* the census profile table
    landcover_tif,  \* the classified landcover raster
    wtlst_csv,      \* the value table (postalcode21, wtlst21_06)
    dmti_csv,       \* the coordinate table (postalcode21, lat/lon)
    \* the installed libraries
    argsort,        \* sort_values on the value table: the row of each postal
                    \* code that the sort puts first
    \* artifacts (data_intermediate/)
    da_gpkg,        \* da.gpkg
    sensitivity_csv,
    adaptive_capacity_csv,
    exposure_csv,
    hvi_components_csv,
    hvi_geojson,
    hvi_regions_components_csv,
    hvi_regions_geojson,
    advisory,       \* the debug reports and previews written so far
    \* locals of the step-wise specifications
    col,            \* normalize_01: the column handed to it
    normed,         \* normalize_01: the column it returned
    w,              \* stage 4: the value table being cleaned and deduplicated
    agg,            \* stage 4: the per-unit aggregate
    da_region,      \* stage 5: the export frame with the assigned region (line 285)
    before,         \* re-runs: the exit statuses and artifacts as they were
                    \* when the stage run that ended last began
    selected        \* stage 2: the rows accumulated by the chunk loop (line 168)

varsRaw == <<da_shp, admin_shp, census_csv, landcover_tif, wtlst_csv, dmti_csv,
             argsort>>
varsOut == <<da_gpkg, sensitivity_csv, adaptive_capacity_csv, exposure_csv,
             hvi_components_csv, hvi_geojson, hvi_regions_components_csv,
             hvi_regions_geojson, advisory>>
varsLocal == <<col, normed, w, agg, da_region, before, selected>>
vars == <<pc, rc, varsRaw, varsOut, varsLocal>>

\* A path of the file system holds no file, or one file with its content.
Absent == <<>>
File(content) == <<content>>
Exists(f) == f # Absent
Content(f) == f[1]

Stages == 1..5
NeverRun == [k \in Stages |-> -1]

NoRaw ==
    /\ da_shp = Absent /\ admin_shp = Absent /\ census_csv = Absent
    /\ landcover_tif = Absent /\ wtlst_csv = Absent /\ dmti_csv = Absent
    /\ argsort = <<>>
NoArtifacts ==
    /\ da_gpkg = Absent /\ sensitivity_csv = Absent
    /\ adaptive_capacity_csv = Absent /\ exposure_csv = Absent
    /\ hvi_components_csv = Absent /\ hvi_geojson = Absent
    /\ hvi_regions_components_csv = Absent /\ hvi_regions_geojson = Absent
    /\ advisory = {}
NoLocals ==
    /\ col = <<>> /\ normed = <<>> /\ w = <<>> /\ agg = <<>> /\ da_region = <<>>
    /\ before = <<>> /\ selected = <<>>

---------------------------------------------------------------------------
(* Nullable floats *)

Null == <<>>
IsNull(v) == v = Null
NotNull(v) == v # Null

PInf == <<1, 0>>
NInf == <<-1, 0>>
IsInf(v) == v = PInf \/ v = NInf
IsFinite(v) == NotNull(v) /\ ~IsInf(v)

Abs(n) == IF n < 0 THEN -n ELSE n
Sign(n) == IF n < 0 THEN -1 ELSE IF n = 0 THEN 0 ELSE 1

RECURSIVE GCD(_, _)
GCD(a, b) == IF b = 0 THEN a ELSE GCD(b, a % b)

\* The float n/d (d # 0), reduced.
Frac(n, d) ==
    LET g == GCD(Abs(n), Abs(d))
        s == IF d < 0 THEN -1 ELSE 1
    IN  <<(s * n) \div g, (s * d) \div g>>

Num(n) == <<n, 1>>
Zero == Num(0)
One == Num(1)

\* IEEE comparison of two non-null floats.
FLt(a, b) ==
    IF a = b THEN FALSE
    ELSE IF a = NInf \/ b = PInf THEN TRUE
    ELSE IF a = PInf \/ b = NInf THEN FALSE
    ELSE a[1] * b[2] < b[1] * a[2]
FLe(a, b) == a = b \/ FLt(a, b)

FNeg(a) == IF IsNull(a) THEN Null ELSE <<-a[1], a[2]>>

\* a + b; inf + (-inf) is NaN.
FAdd(a, b) ==
    IF IsNull(a) \/ IsNull(b) THEN Null
    ELSE IF IsInf(a) /\ IsInf(b) THEN (IF a = b THEN a ELSE Null)
    ELSE IF IsInf(a) THEN a
    ELSE IF IsInf(b) THEN b
    ELSE Frac(a[1] * b[2] + b[1] * a[2], a[2] * b[2])

FSub(a, b) == FAdd(a, FNeg(b))

\* a * b; inf * 0 is NaN.
FMul(a, b) ==
    IF IsNull(a) \/ IsNull(b) THEN Null
    ELSE IF IsInf(a) \/ IsInf(b)
         THEN (IF a[1] = 0 \/ b[1] = 0 THEN Null
               ELSE IF Sign(a[1]) * Sign(b[1]) > 0 THEN PInf ELSE NInf)
    ELSE Frac(a[1] * b[1], a[2] * b[2])

\* a / b as numpy divides floats: x/0 is +-inf, 0/0 and inf/inf are NaN.
FDiv(a, b) ==
    IF IsNull(a) \/ IsNull(b) THEN Null
    ELSE IF IsInf(a) /\ IsInf(b) THEN Null
    ELSE IF IsInf(b) THEN Zero
    ELSE IF b[1] = 0
         THEN (IF a[1] = 0 THEN Null ELSE IF a[1] > 0 THEN PInf ELSE NInf)
    ELSE IF IsInf(a) THEN (IF Sign(a[1]) * Sign(b[1]) > 0 THEN PInf ELSE NInf)
    ELSE Frac(a[1] * b[2], a[2] * b[1])

---------------------------------------------------------------------------
(* Columns (pandas Series) as sequences of nullable floats *)

Range(s) == {s[i] : i \in DOMAIN s}
NonNulls(s) == {v \in Range(s) : NotNull(v)}

\* Series.min(skipna=True) / max(skipna=True): null for an empty or all-null column.
ColMin(s) ==
    IF NonNulls(s) = {} THEN Null
    ELSE CHOOSE m \in NonNulls(s) : \A v \in NonNulls(s) : FLe(m, v)
ColMax(s) ==
    IF NonNulls(s) = {} THEN Null
    ELSE CHOOSE m \in NonNulls(s) : \A v \in NonNulls(s) : FLe(v, m)

\* Mutant of normalize_01: the degenerate guard is dropped and a constant
\* column normalizes to 0 as a naive min-max would after guarding the divide.
normalize_01_noguard(s) ==
    LET mn == ColMin(s)
        mx == ColMax(s)
    IN  [i \in DOMAIN s |->
            IF IsNull(s[i]) THEN Null
            ELSE IF mx = mn THEN Zero
            ELSE FDiv(FSub(s[i], mn), FSub(mx, mn))]

\* Mutant of normalize_01: divides by the maximum instead of the range.
normalize_01_bymax(s) ==
    LET mn == ColMin(s)
        mx == ColMax(s)
    IN  IF IsNull(mn) \/ IsNull(mx) \/ mx = mn
        THEN [i \in DOMAIN s |-> Null]
        ELSE [i \in DOMAIN s |-> FDiv(FSub(s[i], mn), mx)]

normalize_01(s) ==
    LET mn == ColMin(s)
        mx == ColMax(s)
    IN  IF IsNull(mn) \/ IsNull(mx) \/ mx = mn
        THEN [i \in DOMAIN s |-> Null]
        ELSE [i \in DOMAIN s |-> FDiv(FSub(s[i], mn), FSub(mx, mn))]

---------------------------------------------------------------------------
(* Identifiers and geometry *)

\* A unit identifier is a string: Lead leading zeros, one digit 1..9 and,
\* when alpha = 1, a trailing letter (as the "S" of a real DGUID).  It is
\* held as <<lead, digit, alpha>>.
IdLead(id) == id[1]
IdDigit(id) == id[2]
IdAlpha(id) == id[3]
IsDigitString(id) == IdAlpha(id) = 0

\* Lexicographic order of the strings ("0" sorts before "1".."9", a prefix
\* before its extensions).
IdLt(x, y) ==
    IF IdLead(x) # IdLead(y) THEN IdLead(x) > IdLead(y)
    ELSE IF IdDigit(x) # IdDigit(y) THEN IdDigit(x) < IdDigit(y)
    ELSE IdAlpha(x) < IdAlpha(y)
IdLe(x, y) == x = y \/ IdLt(x, y)

Cells == 1..5

\* total_bounds of a layer / the .cx[] window: the hull of the cells covered.
Hull(S) ==
    IF S = {} THEN {}
    ELSE LET lo == CHOOSE c \in S : \A e \in S : c <= e
             hi == CHOOSE c \in S : \A e \in S : e <= c
         IN  lo..hi

SeqsUpTo(S, n) == UNION {[1..k -> S] : k \in 0..n}

RECURSIVE FSum(_)
FSum(s) == IF s = <<>> THEN Zero ELSE FAdd(Head(s), FSum(Tail(s)))

\* The identifiers of S as a list in string order.
RECURSIVE SortedIds(_)
SortedIds(S) ==
    IF S = {} THEN <<>>
    ELSE LET m == CHOOSE x \in S : \A y \in S : IdLe(x, y)
         IN  <<m>> \o SortedIds(S \ {m})

---------------------------------------------------------------------------
(* Stage 1: scripts/01_prepare_da.py                                       *)
(*                                                                         *)
(* A vector file is [crs, cols, rows].  A unit row is [DGUID, cells, rep,  *)
(* simp, valid, buf0]: its identifier, its polygon, the cell holding the   *)
(* point representative_point() returns for the (repaired) polygon, the    *)
(* polygon simplify() returns for it, whether the polygon is valid as read *)
(* and what buffer(0) makes of it.  A region row is [FullName, cells,      *)
(* simp].                                                                  *)

PREFERRED_DA_KEYS == <<"DGUID", "DAUID", "DAUID_2021", "DAUID21">>
NoKey == "KeyError"

\* Mutant of pick_da_key: the last name of the list that is a column.
pick_da_key_last(cols) ==
    IF \E i \in DOMAIN PREFERRED_DA_KEYS : PREFERRED_DA_KEYS[i] \in cols
    THEN PREFERRED_DA_KEYS[CHOOSE i \in DOMAIN PREFERRED_DA_KEYS :
            /\ PREFERRED_DA_KEYS[i] \in cols
            /\ \A j \in (i + 1)..Len(PREFERRED_DA_KEYS) : PREFERRED_DA_KEYS[j] \notin cols]
    ELSE NoKey

pick_da_key(cols) ==
    IF \E i \in DOMAIN PREFERRED_DA_KEYS : PREFERRED_DA_KEYS[i] \in cols
    THEN PREFERRED_DA_KEYS[CHOOSE i \in DOMAIN PREFERRED_DA_KEYS :
            /\ PREFERRED_DA_KEYS[i] \in cols
            /\ \A j \in 1..(i - 1) : PREFERRED_DA_KEYS[j] \notin cols]
    ELSE NoKey

\* config.get_inputs(): every raw input is located, or FileNotFoundError.
InputsResolved ==
    /\ Exists(da_shp) /\ Exists(census_csv) /\ Exists(wtlst_csv)
    /\ Exists(dmti_csv) /\ Exists(landcover_tif)

\* _try_fix_geometries: invalid polygons are replaced by their buffer(0).
try_fix_geometries(rows) ==
    [i \in DOMAIN rows |->
        IF rows[i].valid THEN rows[i]
        ELSE [rows[i] EXCEPT !.cells = rows[i].buf0]]

\* Lines 146-148: the dissolved union of the region polygons.
MetroUnion(regions) == UNION {regions[i].cells : i \in DOMAIN regions}

\* Mutant of KeepUnit: the disabled area-overlap rule (at least 50% of the
\* unit's area inside the mask) decides instead of the representative point.
KeepUnit_overlap(u, metro_geom) ==
    2 * Cardinality(u.cells \cap metro_geom) >= Cardinality(u.cells)

\* Mutant of KeepUnit: any overlap with the mask keeps the unit.
KeepUnit_intersects(u, metro_geom) == u.cells \cap metro_geom # {}

\* Lines 158-159: representative_point().within(metro_geom).
KeepUnit(u, metro_geom) == u.cells # {} /\ u.rep \in metro_geom

FilterToMetro(rows, metro_geom) ==
    LET keep(u) == KeepUnit(u, metro_geom) IN SelectSeq(rows, keep)

\* Lines 103-107: the key column plus the name columns that are present.
KeepCols(cols, da_key) == {da_key} \cup (cols \cap {"DAUID", "DGUID"})

UnitRow(u) == [DGUID |-> u.DGUID, cells |-> u.cells, rep |-> u.rep, simp |-> u.simp]

Failure1 == [rc |-> 1, wrote |-> FALSE, gpkg |-> Absent]

\* main() of stage 1 on the raw inputs as they are now.
Main1 ==
    IF ~InputsResolved \/ ~Exists(admin_shp) THEN Failure1
    ELSE LET da == Content(da_shp)
             admin == Content(admin_shp)
             da_key == pick_da_key(da.cols)
             metro_geom == MetroUnion(admin.rows)
             da_metro == FilterToMetro(try_fix_geometries(da.rows), metro_geom)
         IN  IF da.rows = <<>> THEN Failure1
             ELSE IF da_key = NoKey THEN Failure1
             ELSE IF ~da.crs THEN Failure1
             ELSE IF admin.rows = <<>> THEN Failure1
             ELSE IF ~admin.crs THEN Failure1
             ELSE IF da_metro = <<>> THEN Failure1
             ELSE [rc |-> 0, wrote |-> TRUE,
                   gpkg |-> File([cols |-> KeepCols(da.cols, da_key),
                                  rows |-> [i \in DOMAIN da_metro |-> UnitRow(da_metro[i])],
                                  metro_admin_boundaries |-> admin.rows,
                                  metro_union |-> metro_geom])]

Stage1 ==
    \E run \in {Main1} :
        /\ rc' = [rc EXCEPT ![1] = run.rc]
        /\ da_gpkg' = IF run.wrote THEN run.gpkg ELSE da_gpkg
        /\ advisory' = IF run.wrote THEN advisory \cup {"da_preview.geojson"}
                       ELSE advisory

---------------------------------------------------------------------------
(* Stage 2: scripts/02_census_sensitivity.py                               *)
(*                                                                         *)
(* The census file is the sequence of its rows [DGUID, GEO_LEVEL,          *)
(* CHARACTERISTIC_NAME, C1_COUNT_TOTAL, C10_RATE_TOTAL]; a count or rate   *)
(* is the float to_num parses from the text, null for text that is not a   *)
(* number.  The file always carries the columns of usecols.                *)

LowIncomeName ==
    "Prevalence of low income based on the Low-income measure, after tax (LIM-AT) (%)"
SENIORS_NAMES == {"65 to 74 years", "75 years and over"}
\* The labels of EXACT_NAME_TO_KEY and SENIORS_NAMES.
NAMES_WE_CARE ==
    {"Population, 2021", "Unemployment rate", LowIncomeName, "Living alone"}
    \cup SENIORS_NAMES

\* Mutant of StripName: the labels are matched as written.
StripName_off(n) == n

\* .str.strip() on the labels in use: two of them come padded.
StripName(n) ==
    IF n = "  Living alone" THEN "Living alone"
    ELSE IF n = "Unemployment rate " THEN "Unemployment rate"
    ELSE n

\* cname.map(EXACT_NAME_TO_KEY), the seniors labels mapped to one key.
IndicatorKey(cname) ==
    IF cname \in SENIORS_NAMES THEN "seniors_65plus_count"
    ELSE IF cname = "Population, 2021" THEN "pop_total"
    ELSE IF cname = "Unemployment rate" THEN "unemployment_rate"
    ELSE IF cname = LowIncomeName THEN "low_income_rate"
    ELSE IF cname = "Living alone" THEN "living_alone_count"
    ELSE "NaN"

\* str.contains("Dissemination", case=False) on the level labels in use.
IsDisseminationLevel(level) ==
    level \in {"Dissemination area", "DISSEMINATION AREA",
               "Aggregate dissemination area"}

\* Lines 113-149 on one chunk: the rows that pass the three filters and
\* map to an indicator key, with that key attached.
SelectRows(chunk, valid_dguids) ==
    LET keep(r) == /\ IsDisseminationLevel(r.GEO_LEVEL)
                   /\ StripName(r.CHARACTERISTIC_NAME) \in NAMES_WE_CARE
                   /\ r.DGUID \in valid_dguids
                   /\ IndicatorKey(StripName(r.CHARACTERISTIC_NAME)) # "NaN"
        kept == SelectSeq(chunk, keep)
    IN  [i \in DOMAIN kept |->
            kept[i] @@
            [indicator_key |-> IndicatorKey(StripName(kept[i].CHARACTERISTIC_NAME))]]

\* The number of rows read_csv hands over at a time (250 000 in the source).
chunk_size == 2

\* Lines 103-158 for a reader that cuts the file into chunks of size rows:
\* the list of the non-empty selections, in file order.
RECURSIVE SelectedChunksOf(_, _, _)
SelectedChunksOf(rows, valid_dguids, size) ==
    IF rows = <<>> THEN <<>>
    ELSE LET n == IF Len(rows) < size THEN Len(rows) ELSE size
             out == SelectRows(SubSeq(rows, 1, n), valid_dguids)
             rest == SelectedChunksOf(SubSeq(rows, n + 1, Len(rows)), valid_dguids, size)
         IN  IF out = <<>> THEN rest ELSE <<out>> \o rest

\* Lines 88-158: selected_chunks.
SelectedChunks(rows, valid_dguids) == SelectedChunksOf(rows, valid_dguids, chunk_size)

\* pd.concat(selected_chunks).
RECURSIVE Concat(_)
Concat(chunks) == IF chunks = <<>> THEN <<>> ELSE Head(chunks) \o Concat(Tail(chunks))

\* Lines 176-188: a seniors row whose count equals its rate loses its count.
CleanSeniors(df) ==
    [i \in DOMAIN df |->
        IF /\ df[i].indicator_key = "seniors_65plus_count"
           /\ NotNull(df[i].C1_COUNT_TOTAL) /\ NotNull(df[i].C10_RATE_TOTAL)
           /\ df[i].C1_COUNT_TOTAL = df[i].C10_RATE_TOTAL
        THEN [df[i] EXCEPT !.C1_COUNT_TOTAL = Null]
        ELSE df[i]]

\* groupby(...).first(): the first non-null value, null when there is none.
First(vals) ==
    IF \E i \in DOMAIN vals : NotNull(vals[i])
    THEN vals[CHOOSE i \in DOMAIN vals :
            NotNull(vals[i]) /\ \A j \in 1..(i - 1) : IsNull(vals[j])]
    ELSE Null

\* groupby(...).sum(): the sum of the non-null values (0 when all are null);
\* a unit without a row of the group is absent from the result (null).
SumSkipNa(vals) ==
    IF vals = <<>> THEN Null
    ELSE FSum(SelectSeq(vals, NotNull))

\* The C1 (or C10) values of the rows of one unit and one indicator.
Counts(df, id, key) ==
    LET mine(r) == r.DGUID = id /\ r.indicator_key = key
        rows == SelectSeq(df, mine)
    IN  [i \in DOMAIN rows |-> rows[i].C1_COUNT_TOTAL]
Rates(df, id, key) ==
    LET mine(r) == r.DGUID = id /\ r.indicator_key = key
        rows == SelectSeq(df, mine)
    IN  [i \in DOMAIN rows |-> rows[i].C10_RATE_TOTAL]

\* Lines 211-216: the seniors count, nulled when above the population or
\* negative.
SeniorsCount(df, id) ==
    LET seniors == SumSkipNa(Counts(df, id, "seniors_65plus_count"))
        pop == First(Counts(df, id, "pop_total"))
    IN  IF NotNull(seniors) /\ NotNull(pop) /\ FLt(pop, seniors) THEN Null
        ELSE IF NotNull(seniors) /\ FLt(seniors, Zero) THEN Null
        ELSE seniors

\* Mutant of MeanSkipNa: skipna=False.
MeanSkipNa_strict(vals) ==
    IF \E i \in DOMAIN vals : IsNull(vals[i]) THEN Null
    ELSE FDiv(FSum(vals), Num(Len(vals)))

\* mean(axis=1, skipna=True): the mean of the non-null values, null when
\* there is none.
MeanSkipNa(vals) ==
    LET present == SelectSeq(vals, NotNull)
    IN  IF present = <<>> THEN Null ELSE FDiv(FSum(present), Num(Len(present)))

\* Lines 196-237: the wide table, one row per unit of the layer in
\* identifier order.
Wide(df, valid_dguids) ==
    LET ids == SortedIds(valid_dguids)
        pop == [k \in DOMAIN ids |-> First(Counts(df, ids[k], "pop_total"))]
        unemp == [k \in DOMAIN ids |-> First(Rates(df, ids[k], "unemployment_rate"))]
        lowinc == [k \in DOMAIN ids |-> First(Rates(df, ids[k], "low_income_rate"))]
        seniors == [k \in DOMAIN ids |-> SeniorsCount(df, ids[k])]
        alone == [k \in DOMAIN ids |-> First(Counts(df, ids[k], "living_alone_count"))]
        pct_seniors == [k \in DOMAIN ids |-> FMul(FDiv(seniors[k], pop[k]), Num(100))]
        pct_alone == [k \in DOMAIN ids |-> FMul(FDiv(alone[k], pop[k]), Num(100))]
        unemp_n01 == normalize_01(unemp)
        lowinc_n01 == normalize_01(lowinc)
        seniors_n01 == normalize_01(pct_seniors)
        alone_n01 == normalize_01(pct_alone)
    IN  [k \in DOMAIN ids |->
            [DGUID |-> ids[k],
             pop_total |-> pop[k],
             unemployment_rate |-> unemp[k],
             low_income_rate |-> lowinc[k],
             seniors_65plus_count |-> seniors[k],
             living_alone_count |-> alone[k],
             pct_seniors_65plus |-> pct_seniors[k],
             pct_living_alone |-> pct_alone[k],
             unemployment_rate_n01 |-> unemp_n01[k],
             low_income_rate_n01 |-> lowinc_n01[k],
             pct_seniors_65plus_n01 |-> seniors_n01[k],
             pct_living_alone_n01 |-> alone_n01[k],
             sensitivity_index |->
                MeanSkipNa(<<unemp_n01[k], lowinc_n01[k], seniors_n01[k], alone_n01[k]>>)]]

\* Mutant of Failure2: the stage reports success where it returns 1.
Failure2_success == [rc |-> 0, wrote |-> FALSE, csv |-> Absent, reports |-> {}]

\* "return 1" (or the FileNotFoundError of get_inputs) before any write.
Failure2 == [rc |-> 1, wrote |-> FALSE, csv |-> Absent, reports |-> {}]

\* main() of stage 2 on the files as they are now.
Main2 ==
    IF ~InputsResolved THEN Failure2
    ELSE IF ~Exists(da_gpkg) THEN Failure2
    ELSE IF "DGUID" \notin Content(da_gpkg).cols THEN Failure2
    ELSE LET layer == Content(da_gpkg).rows
             valid_dguids == {layer[i].DGUID : i \in DOMAIN layer}
             selected_chunks == SelectedChunks(Content(census_csv), valid_dguids)
             df == CleanSeniors(Concat(selected_chunks))
         IN  IF selected_chunks = <<>> THEN Failure2
             ELSE [rc |-> 0, wrote |-> TRUE,
                   csv |-> File(Wide(df, valid_dguids)),
                   reports |-> {"census_selected_long.csv", "02_census_debug_report.txt"}]

Stage2 ==
    \E run \in {Main2} :
        /\ rc' = [rc EXCEPT ![2] = run.rc]
        /\ sensitivity_csv' = IF run.wrote THEN run.csv ELSE sensitivity_csv
        /\ advisory' = advisory \cup run.reports

---------------------------------------------------------------------------
(* Stage 3: scripts/03_adaptive_capacity.py                                *)
(*                                                                         *)
(* The raster is [crs, px]: px gives the class code of the pixel of every  *)
(* cell the raster covers (one pixel per cell).  rasterio and rasterstats  *)
(* are installed, and the layer stage 1 wrote carries a CRS.               *)

GREEN_CLASSES == {6, 7, 8, 9, 10}
NODATA_VALUE == 0

\* Lines 97-98: the bounding box of the raster.
RasterBBox(raster) == Hull(DOMAIN raster.px)

\* zonal_stats(categorical=True, nodata=NODATA_VALUE) for one polygon: the
\* pixels of the polygon that hold data, by class; none when the polygon
\* has no such pixel.
ZonalPixels(cells, raster) ==
    {c \in cells \cap DOMAIN raster.px : raster.px[c] # NODATA_VALUE}

\* The dict zonal_stats returns for one polygon: pixel count by class over
\* the pixels that hold data; the empty dict when there is none.
ZonalStats(cells, raster) ==
    LET pixels == ZonalPixels(cells, raster)
    IN  [k \in {raster.px[c] : c \in pixels} |->
            Cardinality({c \in pixels : raster.px[c] = k})]

\* Lines 145-154: the counts of the dict summed over the keys other than
\* the nodata code.
RECURSIVE TotalOver(_, _)
TotalOver(d, keys) ==
    IF keys = {} THEN 0
    ELSE LET k == CHOOSE x \in keys : TRUE
         IN  d[k] + TotalOver(d, keys \ {k})
TotalPixels(d) == TotalOver(d, (DOMAIN d) \ {NODATA_VALUE})

\* Line 160: d.get(code, 0).
ClassPixels(d, code) == IF code \in DOMAIN d THEN d[code] ELSE 0

\* Mutant of SumNoSkip: skipna=True, a row of nulls sums to 0.
SumNoSkip_skipna(vals) == FSum(SelectSeq(vals, NotNull))

\* sum(axis=1, skipna=False): null as soon as one value is null.
SumNoSkip(vals) == FSum(vals)

\* Lines 138-171 for one unit: total_pixels, the class fractions and
\* green_frac, null when the zonal result is empty.
ZonalRow(u, raster) ==
    LET d == ZonalStats(u.cells, raster)
        total == IF DOMAIN d = {} THEN Null ELSE Num(TotalPixels(d))
        frac(code) == FDiv(IF DOMAIN d = {} THEN Null ELSE Num(ClassPixels(d, code)),
                           total)
    IN  [DGUID |-> u.DGUID,
         da_area_m2 |-> Num(Cardinality(u.cells)),
         total_pixels |-> total,
         frac_coniferous |-> frac(6),
         frac_deciduous |-> frac(7),
         frac_shrub |-> frac(8),
         frac_modified_herb |-> frac(9),
         frac_natural_herb |-> frac(10),
         green_frac |-> SumNoSkip(<<frac(6), frac(7), frac(8), frac(9), frac(10)>>)]

\* Lines 107-178: the table, one row per unit that meets the raster's
\* bounding box, in layer order.
AdaptiveTable(units, raster) ==
    LET meets(u) == u.cells \cap RasterBBox(raster) # {}
        da == SelectSeq(units, meets)
        out == [i \in DOMAIN da |-> ZonalRow(da[i], raster)]
        index == normalize_01([i \in DOMAIN out |-> out[i].green_frac])
    IN  [i \in DOMAIN out |-> out[i] @@ [adaptive_capacity_index |-> index[i]]]

\* Mutant of Failure3: the stage reports success where it returns 1.
Failure3_success == [rc |-> 0, wrote |-> FALSE, csv |-> Absent, reports |-> {}]

Failure3 == [rc |-> 1, wrote |-> FALSE, csv |-> Absent, reports |-> {}]

\* main() of stage 3 on the files as they are now.
Main3 ==
    IF ~InputsResolved THEN Failure3
    ELSE IF ~Exists(da_gpkg) THEN Failure3
    ELSE IF "DGUID" \notin Content(da_gpkg).cols THEN Failure3
    ELSE IF ~Content(landcover_tif).crs THEN Failure3
    ELSE LET out == AdaptiveTable(Content(da_gpkg).rows, Content(landcover_tif))
         IN  IF out = <<>> THEN Failure3
             ELSE [rc |-> 0, wrote |-> TRUE, csv |-> File(out),
                   reports |-> {"03_adaptive_capacity_debug_report.txt"}]

Stage3 ==
    \E run \in {Main3} :
        /\ rc' = [rc EXCEPT ![3] = run.rc]
        /\ adaptive_capacity_csv' = IF run.wrote THEN run.csv
                                    ELSE adaptive_capacity_csv
        /\ advisory' = advisory \cup run.reports

---------------------------------------------------------------------------
(* Stage 4: scripts/04_exposure_lst.py *)

BAD_SENTINELS == {Num(-9999), Num(-999)}
VALID_RANGE == <<Num(-50), Num(80)>>

\* A postal code as written in a file is <<code, form>>: code is the rank of
\* the upper-case blank-free string in string order (0 is "NAN", what
\* astype(str) makes of a missing code), form "raw" stands for lower case
\* or embedded blanks and "clean" for the string clean_postalcode returns.
clean_postalcode(p) == <<p[1], "clean">>

CleanSentinel(v) == IF v \in BAD_SENTINELS THEN Null ELSE v

\* Mutant of CleanRange: the range test is not applied.
CleanRange_off(v) == v

\* Mutant of CleanRange: the upper bound is exclusive.
CleanRange_strict(v) ==
    IF NotNull(v) /\ (FLt(v, VALID_RANGE[1]) \/ FLe(VALID_RANGE[2], v))
    THEN Null ELSE v

CleanRange(v) ==
    IF NotNull(v) /\ (FLt(v, VALID_RANGE[1]) \/ FLt(VALID_RANGE[2], v))
    THEN Null ELSE v

\* Lines 100-111: postal codes normalized, then sentinels and out-of-range
\* values nulled, in that order.
CleanW(rows) ==
    [i \in DOMAIN rows |->
        [postalcode |-> clean_postalcode(rows[i].postalcode),
         wtlst |-> CleanRange(CleanSentinel(rows[i].wtlst))]]

\* Lines 117-121: sort_values(["postalcode"]) then drop_duplicates(keep=
\* "first").  The single-key sort is pandas' default quicksort, which is not
\* stable: which of the rows of one postal code comes first is up to the
\* installed sort, and is the same every time the same table is sorted.
RECURSIVE SortedCodes(_)
SortedCodes(S) ==
    IF S = {} THEN <<>>
    ELSE LET m == CHOOSE x \in S : \A y \in S : x[1] <= y[1]
         IN  <<m>> \o SortedCodes(S \ {m})


\* What a sort of the table may put first: for each postal code, one of its
\* rows.
SortPicks(rows) ==
    LET codes == {rows[i].postalcode : i \in DOMAIN rows}
    IN  {f \in [codes -> DOMAIN rows] : \A c \in codes : rows[f[c]].postalcode = c}

\* The table sorted by postal code with the first row of each code kept.
DedupW(rows, first) ==
    LET sorted == SortedCodes({rows[i].postalcode : i \in DOMAIN rows})
    IN  [k \in DOMAIN sorted |-> rows[first[sorted[k]]]]

\* Mutant of WriteCsv: mode="a", the rows are appended to an existing file.
WriteCsv_append(old, table) ==
    IF Exists(old) THEN File(Content(old) \o table) ELSE File(table)

\* DataFrame.to_csv(path, index=False): the file is replaced.
WriteCsv(old, table) == File(table)

\* Lines 139-145: the coordinate table with clean postal codes, rows with
\* null or out-of-range coordinates (loc = 0) dropped.
CleanD(rows) ==
    LET cleaned == [i \in DOMAIN rows |->
                       [postalcode |-> clean_postalcode(rows[i].postalcode),
                        loc |-> rows[i].loc]]
        valid(r) == r.loc # 0
    IN  SelectSeq(cleaned, valid)

\* Line 149: d.merge(w, on="postalcode", how="left", validate="m:1"), w
\* holding one row per postal code.
MergeDW(dd, ww) ==
    [i \in DOMAIN dd |->
        [postalcode |-> dd[i].postalcode,
         loc |-> dd[i].loc,
         wtlst |-> IF \E j \in DOMAIN ww : ww[j].postalcode = dd[i].postalcode
                   THEN ww[CHOOSE j \in DOMAIN ww :
                              ww[j].postalcode = dd[i].postalcode].wtlst
                   ELSE Null]]

\* Line 154: rows without a value are dropped before points are built.
DropNaWtlst(merged) ==
    LET has(r) == NotNull(r.wtlst) IN SelectSeq(merged, has)

LayerCells(units) == UNION {units[i].cells : i \in DOMAIN units}

\* Mutant of BBoxFilter: the window is the first unit's bounds only.
BBoxFilter_first(pts, units) ==
    LET box == IF units = <<>> THEN {} ELSE Hull(units[1].cells)
        inside(r) == r.loc \in box
    IN  SelectSeq(pts, inside)

\* Lines 80-81, 167-170: pts.cx[minx:maxx, miny:maxy] on the layer's bounds.
BBoxFilter(pts, units) ==
    LET box == Hull(LayerCells(units))
        inside(r) == r.loc \in box
    IN  SelectSeq(pts, inside)

\* Lines 173-178: sjoin(pts, da, how="inner", predicate="within"): one row
\* per (point, unit) pair with the point within the unit.
RECURSIVE SJoinWithin(_, _)
SJoinWithin(pts, units) ==
    IF pts = <<>> THEN <<>>
    ELSE LET p == Head(pts)
             hit(u) == p.loc \in u.cells
             hits == SelectSeq(units, hit)
         IN  [k \in DOMAIN hits |-> [DGUID |-> hits[k].DGUID, wtlst |-> p.wtlst]]
             \o SJoinWithin(Tail(pts), units)

Mean(vals) == FDiv(FSum(vals), Num(Len(vals)))

Median(vals) ==
    LET srt == SortSeq(vals, FLt)
        n == Len(srt)
    IN  IF n = 0 THEN Null
        ELSE IF n % 2 = 1 THEN srt[(n + 1) \div 2]
        ELSE FDiv(FAdd(srt[n \div 2], srt[n \div 2 + 1]), Num(2))

\* Lines 181-190: groupby("DGUID") mean / median / count, keys sorted, then
\* the normalized columns; exposure_index is the normalized mean.
AggExposure(joined) ==
    LET keys == SortedIds({joined[i].DGUID : i \in DOMAIN joined})
        of(k) == LET mine(r) == r.DGUID = k
                     rows == SelectSeq(joined, mine)
                 IN  [i \in DOMAIN rows |-> rows[i].wtlst]
        means == [k \in DOMAIN keys |-> Mean(of(keys[k]))]
        medians == [k \in DOMAIN keys |-> Median(of(keys[k]))]
        mean_n01 == normalize_01(means)
        median_n01 == normalize_01(medians)
    IN  [k \in DOMAIN keys |->
            [DGUID |-> keys[k],
             exposure_mean |-> means[k],
             exposure_median |-> medians[k],
             n_postalcodes |-> Len(of(keys[k])),
             exposure_mean_n01 |-> mean_n01[k],
             exposure_median_n01 |-> median_n01[k],
             exposure_index |-> mean_n01[k]]]

\* Lines 123-190 for a deduplicated value table ww.
ExposureTable(ww, drows, units) ==
    AggExposure(SJoinWithin(
        BBoxFilter(DropNaWtlst(MergeDW(CleanD(drows), ww)), units), units))

\* Lines 47-78: what ends stage 4 before it reads a table.  The value and
\* coordinate files always carry the columns lines 87-92 and 127-130 ask for.
Fails4 ==
    \/ ~InputsResolved
    \/ ~Exists(da_gpkg)
    \/ "DGUID" \notin Content(da_gpkg).cols

\* main() of stage 4 on the files as they are now.
Stage4 ==
    IF Fails4
    THEN /\ rc' = [rc EXCEPT ![4] = 1]
         /\ UNCHANGED <<exposure_csv, advisory>>
    ELSE \E ww \in {DedupW(CleanW(Content(wtlst_csv)), argsort)} :
            /\ exposure_csv' =
                  WriteCsv(exposure_csv,
                           ExposureTable(ww, Content(dmti_csv), Content(da_gpkg).rows))
            /\ advisory' = advisory \cup {"exposure_points_preview.geojson",
                                          "04_exposure_debug_report.txt"}
            /\ rc' = [rc EXCEPT ![4] = 0]

---------------------------------------------------------------------------
(* Stage 5: scripts/05_hvi_composite.py                                    *)
(*                                                                         *)
(* A score table is the sequence of its rows.  Only the columns stage 5    *)
(* computes with are carried (DGUID, pop_total, the three indices); the    *)
(* other frontend columns are copied through unchanged by the joins.  The  *)
(* tables written by stages 2-4 always hold the columns lines 94-143 ask   *)
(* for, so those checks cannot fail on them.                               *)

\* pd.read_csv without dtype: a DGUID column whose every value is a digit
\* string is parsed as integers, and astype(str) (line 98) prints them
\* without leading zeros; a column with any other value stays text.
ReadCsvIds(rows) ==
    IF rows # <<>> /\ \A i \in DOMAIN rows : IsDigitString(rows[i].DGUID)
    THEN [i \in DOMAIN rows |->
            [rows[i] EXCEPT !.DGUID = <<0, IdDigit(rows[i].DGUID), 0>>]]
    ELSE rows

\* Mutant of LeftRows: how="inner".
LeftRows_inner(l, m, nulls) == [k \in DOMAIN m |-> l @@ m[k]]

\* The rows a left join makes of left row l and its matching right rows m:
\* one per match, or l once with the right columns null.
LeftRows(l, m, nulls) ==
    IF m = <<>> THEN <<l @@ nulls>> ELSE [k \in DOMAIN m |-> l @@ m[k]]

\* left.merge(right, on="DGUID", how="left").
RECURSIVE MergeLeft(_, _, _)
MergeLeft(left, right, nulls) ==
    IF left = <<>> THEN <<>>
    ELSE LET l == Head(left)
             same(r) == r.DGUID = l.DGUID
         IN  LeftRows(l, SelectSeq(right, same), nulls)
             \o MergeLeft(Tail(left), right, nulls)

SensCols(r) == [DGUID |-> r.DGUID, pop_total |-> r.pop_total,
                sensitivity_index |-> r.sensitivity_index]
AdaptCols(r) == [DGUID |-> r.DGUID,
                 adaptive_capacity_index |-> r.adaptive_capacity_index]
ExpoCols(r) == [DGUID |-> r.DGUID, exposure_index |-> r.exposure_index]

\* Lines 86-152: the unit layer with the three tables left-joined onto it.
JoinComponents(units, sens, adapt, expo) ==
    LET da == [i \in DOMAIN units |-> [DGUID |-> units[i].DGUID,
                                       cells |-> units[i].cells,
                                       simp |-> units[i].simp]]
        s == ReadCsvIds(sens)
        a == ReadCsvIds(adapt)
        e == ReadCsvIds(expo)
        j1 == MergeLeft(da, [i \in DOMAIN s |-> SensCols(s[i])],
                        [pop_total |-> Null, sensitivity_index |-> Null])
        j2 == MergeLeft(j1, [i \in DOMAIN a |-> AdaptCols(a[i])],
                        [adaptive_capacity_index |-> Null])
    IN  MergeLeft(j2, [i \in DOMAIN e |-> ExpoCols(e[i])],
                  [exposure_index |-> Null])

\* Mutant of HviRaw: a missing adaptive capacity counts as 0 and the
\* completeness mask is not applied.
HviRaw_fillna(S, A, E) == FMul(E, FSub(S, IF IsNull(A) THEN Zero ELSE A))

\* Mutant of HviRaw: a weighted sum in place of the product.
HviRaw_sum(S, A, E) ==
    IF NotNull(S) /\ NotNull(A) /\ NotNull(E) THEN FSub(FAdd(E, S), A) ELSE Null

\* Lines 155-167: hvi_raw of one row: E * (S - A), nulled unless the row is
\* complete and the product is non-null.
HviRaw(S, A, E) ==
    LET hvi_complete == NotNull(S) /\ NotNull(A) /\ NotNull(E)
        raw == FMul(E, FSub(S, A))
        complete_mask == hvi_complete /\ NotNull(raw)
    IN  IF complete_mask THEN raw ELSE Null

\* The indices of the rows of a table that satisfy a mask, in order.
Positions(mask) ==
    LET idx == [i \in DOMAIN mask |-> i]
        on(i) == mask[i]
    IN  SelectSeq(idx, on)

\* Lines 154-171.
Composite(joined) ==
    LET raw == [i \in DOMAIN joined |->
                   HviRaw(joined[i].sensitivity_index,
                          joined[i].adaptive_capacity_index,
                          joined[i].exposure_index)]
        complete == [i \in DOMAIN joined |->
                        /\ NotNull(joined[i].sensitivity_index)
                        /\ NotNull(joined[i].adaptive_capacity_index)
                        /\ NotNull(joined[i].exposure_index)]
        complete_mask == [i \in DOMAIN joined |-> complete[i] /\ NotNull(raw[i])]
        pos == Positions(complete_mask)
        n01 == normalize_01([k \in DOMAIN pos |-> raw[pos[k]]])
    IN  [i \in DOMAIN joined |->
            joined[i] @@
            [has_sensitivity |-> NotNull(joined[i].sensitivity_index),
             has_adaptive |-> NotNull(joined[i].adaptive_capacity_index),
             has_exposure |-> NotNull(joined[i].exposure_index),
             hvi_complete |-> complete[i],
             hvi_raw |-> raw[i],
             hvi_index_n01 |->
                IF complete_mask[i]
                THEN n01[CHOOSE k \in DOMAIN pos : pos[k] = i]
                ELSE Null]]

DropGeometry(r) == [x \in (DOMAIN r) \ {"cells", "simp"} |-> r[x]]

\* Lines 191-201: the export frame; its geometry column is the simplified
\* polygon from here on.
Simplified(r) == [x \in (DOMAIN r) \ {"cells", "simp"} |-> r[x]] @@ [geometry |-> r.simp]

\* The alphabetical order of the region names in use.
NameOrder == <<"Anmore", "Burnaby", "Surrey">>
NameRank(n) == CHOOSE i \in DOMAIN NameOrder : NameOrder[i] = n
NoRegion == "NaN"

\* Lines 268-278: gpd.overlay(how="intersection"): one row per (unit row,
\* region) pair whose polygons overlap, unit rows outermost, with the area
\* of the intersection.
RECURSIVE Overlay(_, _)
Overlay(da_area, admin_area) ==
    IF da_area = <<>> THEN <<>>
    ELSE LET u == Head(da_area)
             meets(g) == u.geometry \cap g.cells # {}
             hits == SelectSeq(admin_area, meets)
         IN  [k \in DOMAIN hits |->
                 [DGUID |-> u.DGUID, FullName |-> hits[k].FullName,
                  inter_area_m2 |-> Cardinality(u.geometry \cap hits[k].cells)]]
             \o Overlay(Tail(da_area), admin_area)

\* Mutant of PickRegion: ascending instead of descending area.
PickRegion_min(rows) ==
    rows[CHOOSE k \in DOMAIN rows :
            /\ \A j \in DOMAIN rows : rows[k].inter_area_m2 <= rows[j].inter_area_m2
            /\ \A j \in 1..(k - 1) : rows[j].inter_area_m2 # rows[k].inter_area_m2]

\* Lines 281-282 for the overlay rows of one DGUID: after the stable
\* two-key sort the first row is the earliest one of maximal area.
PickRegion(rows) ==
    rows[CHOOSE k \in DOMAIN rows :
            /\ \A j \in DOMAIN rows : rows[j].inter_area_m2 <= rows[k].inter_area_m2
            /\ \A j \in 1..(k - 1) : rows[j].inter_area_m2 # rows[k].inter_area_m2]

\* Lines 281-282: one overlay row per DGUID, in DGUID order.
DaToRegion(inter) ==
    LET keys == SortedIds({inter[i].DGUID : i \in DOMAIN inter})
    IN  [k \in DOMAIN keys |->
            LET mine(r) == r.DGUID = keys[k]
            IN  PickRegion(SelectSeq(inter, mine))]

\* Lines 285-289: the region name joined back onto the export frame.
DaRegion(gdf_da, da_to_region) ==
    [i \in DOMAIN gdf_da |->
        gdf_da[i] @@
        [FullName |->
            IF \E k \in DOMAIN da_to_region : da_to_region[k].DGUID = gdf_da[i].DGUID
            THEN da_to_region[CHOOSE k \in DOMAIN da_to_region :
                    da_to_region[k].DGUID = gdf_da[i].DGUID].FullName
            ELSE NoRegion]]

\* Mutant of Qualifies: units of zero or negative population are kept.
Qualifies_anypop(r) ==
    r.FullName # NoRegion /\ NotNull(r.pop_total) /\ NotNull(r.hvi_raw)

\* Lines 296-297: assigned, population and hvi_raw present, population > 0.
Qualifies(r) ==
    /\ r.FullName # NoRegion /\ NotNull(r.pop_total) /\ NotNull(r.hvi_raw)
    /\ FLt(Zero, r.pop_total)

\* Mutant of wmean: the unweighted mean.
wmean_plain(group) ==
    FDiv(FSum([i \in DOMAIN group |-> group[i].hvi_raw]), Num(Len(group)))

\* Lines 300-303: _wmean.
wmean(group) ==
    FDiv(FSum([i \in DOMAIN group |-> FMul(group[i].pop_total, group[i].hvi_raw)]),
         FSum([i \in DOMAIN group |-> group[i].pop_total]))

RECURSIVE SortedNames(_)
SortedNames(S) ==
    IF S = {} THEN <<>>
    ELSE LET m == CHOOSE x \in S : \A y \in S : NameRank(x) <= NameRank(y)
         IN  <<m>> \o SortedNames(S \ {m})

\* Lines 296-315: the per-region statistics, one row per region name that
\* has a qualifying unit, in name order.
RegionStats(frame) ==
    LET agg_src == SelectSeq(frame, Qualifies)
        names == SortedNames({agg_src[i].FullName : i \in DOMAIN agg_src})
        group(n) == LET mine(r) == r.FullName = n IN SelectSeq(agg_src, mine)
        pw == [k \in DOMAIN names |-> wmean(group(names[k]))]
        n01 == normalize_01(pw)
    IN  [k \in DOMAIN names |->
            [FullName |-> names[k],
             region_hvi_raw_pw |-> pw[k],
             region_pop_total |->
                FSum([i \in DOMAIN group(names[k]) |-> group(names[k])[i].pop_total]),
             da_count_used |->
                Cardinality({group(names[k])[i].DGUID : i \in DOMAIN group(names[k])}),
             region_hvi_n01 |-> n01[k]]]

NullStats == [region_hvi_raw_pw |-> Null, region_pop_total |-> Null,
              da_count_used |-> Null, region_hvi_n01 |-> Null]

\* Lines 318-324: the statistics left-joined onto the region polygons, the
\* polygons simplified.
RECURSIVE GdfRegion(_, _)
GdfRegion(admin, region_stats) ==
    IF admin = <<>> THEN <<>>
    ELSE LET g == Head(admin)
             same(r) == r.FullName = g.FullName
             m == SelectSeq(region_stats, same)
             base == [FullName |-> g.FullName, geometry |-> g.simp]
         IN  (IF m = <<>> THEN <<base @@ NullStats>>
              ELSE [k \in DOMAIN m |-> base @@ m[k]])
             \o GdfRegion(Tail(admin), region_stats)

\* What a run of stage 5 leaves behind: its exit status, the files it wrote
\* before it ended and the frame of line 285 when that line was reached.
Outcome5(status, da_files, region_files, frame) ==
    [rc |-> status,
     wrote_da |-> da_files # <<>>,
     components |-> IF da_files # <<>> THEN File(da_files[1]) ELSE Absent,
     geojson |-> IF da_files # <<>> THEN File(da_files[2]) ELSE Absent,
     wrote_region |-> region_files # <<>>,
     regions_components |-> IF region_files # <<>> THEN File(region_files[1]) ELSE Absent,
     regions_geojson |-> IF region_files # <<>> THEN File(region_files[2]) ELSE Absent,
     da_region |-> frame]

\* Lines 315-334: the statistics of the regions and the two region files.
\* groupby.apply on an empty frame returns a frame without the
\* region_hvi_raw_pw column, and line 315 raises KeyError.
Regions5(da_files, admin, frame, region_stats) ==
    IF region_stats = <<>> THEN Outcome5(1, da_files, <<>>, frame)
    ELSE Outcome5(0, da_files,
                  <<region_stats, GdfRegion(admin.rows, region_stats)>>, frame)

\* Lines 276-313: the intersections, the region of every unit and the
\* aggregation of the qualifying units.
Assign5(da_files, gdf_da, admin, inter) ==
    IF inter = <<>> THEN Outcome5(1, da_files, <<>>, <<>>)
    ELSE Regions5(da_files, admin, DaRegion(gdf_da, DaToRegion(inter)),
                  RegionStats(DaRegion(gdf_da, DaToRegion(inter))))

\* Lines 173-273: the two unit-level files are written, then the region
\* layer is read and checked and overlaid on the export frame.
Export5(out_table, gdf_da, admin) ==
    IF admin.rows = <<>> THEN Outcome5(1, <<out_table, gdf_da>>, <<>>, <<>>)
    ELSE IF "FullName" \notin admin.cols
         THEN Outcome5(1, <<out_table, gdf_da>>, <<>>, <<>>)
    ELSE IF ~admin.crs THEN Outcome5(1, <<out_table, gdf_da>>, <<>>, <<>>)
    ELSE IF ~({"ShortName", "MunNum"} \subseteq admin.cols)
         THEN Outcome5(1, <<out_table, gdf_da>>, <<>>, <<>>)
    ELSE Assign5(<<out_table, gdf_da>>, gdf_da, admin,
                 Overlay(gdf_da, admin.rows))

\* Lines 173-201 for the scored frame out.
Frames5(out) ==
    Export5([i \in DOMAIN out |-> DropGeometry(out[i])],
            [i \in DOMAIN out |-> Simplified(out[i])],
            Content(admin_shp))

\* main() of stage 5 on the files as they are now.  An uncaught exception
\* (KeyError at line 270 or 315, ValueError at line 265) ends the process
\* with status 1 like a "return 1".
Main5 ==
    IF ~Exists(da_gpkg) \/ ~Exists(sensitivity_csv)
       \/ ~Exists(adaptive_capacity_csv) \/ ~Exists(exposure_csv)
       \/ ~Exists(admin_shp)
    THEN Outcome5(1, <<>>, <<>>, <<>>)
    ELSE IF "DGUID" \notin Content(da_gpkg).cols THEN Outcome5(1, <<>>, <<>>, <<>>)
    ELSE Frames5(Composite(JoinComponents(Content(da_gpkg).rows,
                                          Content(sensitivity_csv),
                                          Content(adaptive_capacity_csv),
                                          Content(exposure_csv))))

Stage5 ==
    \E run \in {Main5} :
        /\ rc' = [rc EXCEPT ![5] = run.rc]
        /\ hvi_components_csv' = IF run.wrote_da THEN run.components
                                 ELSE hvi_components_csv
        /\ hvi_geojson' = IF run.wrote_da THEN run.geojson ELSE hvi_geojson
        /\ hvi_regions_components_csv' =
              IF run.wrote_region THEN run.regions_components
              ELSE hvi_regions_components_csv
        /\ hvi_regions_geojson' = IF run.wrote_region THEN run.regions_geojson
                                  ELSE hvi_regions_geojson
        /\ advisory' = IF run.rc = 0 THEN advisory \cup {"05_hvi_debug_report.txt"}
                       ELSE advisory
        /\ da_region' = run.da_region

---------------------------------------------------------------------------
(* SpecNorm: normalize_01 applied to every column within the bounds *)

MaxLen == 4

NormVals == {Null, Num(-3), Zero, Num(5), Frac(15, 2), PInf}

InitNorm ==
    /\ pc = "input"
    /\ col \in SeqsUpTo(NormVals, MaxLen)
    /\ normed = <<>>
    /\ w = <<>> /\ agg = <<>> /\ da_region = <<>> /\ before = <<>>
    /\ selected = <<>>
    /\ rc = NeverRun
    /\ NoRaw
    /\ NoArtifacts

Normalize ==
    /\ pc = "input"
    /\ normed' = normalize_01(col)
    /\ pc' = "normalized"
    /\ UNCHANGED <<rc, varsRaw, varsOut, col, w, agg, da_region, before, selected>>

NextNorm == Normalize

SpecNorm == InitNorm /\ [][NextNorm]_vars

---------------------------------------------------------------------------
(* SpecExposure: the steps of stage 4 on every value table within the      *)
(* bounds, with all of its input files present                             *)

MaxRowsW == 2

WVals == {Null, Num(-9999), Num(-999), Num(-51), Num(-50), Num(45),
          Num(80), Num(81), Num(999)}
WCodes == {<<1, "clean">>, <<1, "raw">>, <<2, "clean">>}
WRows == [postalcode : WCodes, wtlst : WVals]

\* Identifiers used for the sample layers.
IdA == <<0, 1, 1>>
IdB == <<0, 2, 1>>
IdC == <<0, 3, 1>>

\* Two units with a gap between them (cell 3) and a cell beyond the bounds
\* of the layer (cell 5).
SampleLayer ==
    [cols |-> {"DGUID"},
     rows |-> <<[DGUID |-> IdA, cells |-> {1, 2}, rep |-> 1, simp |-> {1, 2}],
                [DGUID |-> IdB, cells |-> {4}, rep |-> 4, simp |-> {4}]>>,
     metro_admin_boundaries |->
        <<[FullName |-> "Burnaby", cells |-> {1, 2, 3, 4}, simp |-> {1, 2, 3, 4}]>>,
     metro_union |-> {1, 2, 3, 4}]

SampleDmti ==
    <<[postalcode |-> <<1, "raw">>, loc |-> 1],
      [postalcode |-> <<1, "clean">>, loc |-> 2],
      [postalcode |-> <<2, "clean">>, loc |-> 4],
      [postalcode |-> <<2, "clean">>, loc |-> 3],
      [postalcode |-> <<2, "clean">>, loc |-> 5],
      [postalcode |-> <<2, "raw">>, loc |-> 0]>>

InitExposure ==
    /\ pc = "s4_start"
    /\ rc = NeverRun
    /\ wtlst_csv \in {File(t) : t \in SeqsUpTo(WRows, MaxRowsW)}
    /\ argsort \in SortPicks(CleanW(Content(wtlst_csv)))
    /\ dmti_csv = File(SampleDmti)
    /\ da_gpkg = File(SampleLayer)
    /\ da_shp = Absent /\ admin_shp = Absent /\ census_csv = Absent
    /\ landcover_tif = Absent
    /\ sensitivity_csv = Absent /\ adaptive_capacity_csv = Absent
    /\ exposure_csv = Absent
    /\ hvi_components_csv = Absent /\ hvi_geojson = Absent
    /\ hvi_regions_components_csv = Absent /\ hvi_regions_geojson = Absent
    /\ advisory = {}
    /\ NoLocals

\* Lines 84-113.
S4_Clean ==
    /\ pc = "s4_start"
    /\ w' = CleanW(Content(wtlst_csv))
    /\ pc' = "s4_cleaned"
    /\ UNCHANGED <<rc, varsRaw, varsOut, col, normed, agg, da_region, before, selected>>

\* Lines 115-121.
S4_Dedup ==
    /\ pc = "s4_cleaned"
    /\ w' = DedupW(w, argsort)
    /\ pc' = "s4_deduped"
    /\ UNCHANGED <<rc, varsRaw, varsOut, col, normed, agg, da_region, before, selected>>

\* Lines 123-195.
S4_Aggregate ==
    /\ pc = "s4_deduped"
    /\ agg' = ExposureTable(w, Content(dmti_csv), Content(da_gpkg).rows)
    /\ exposure_csv' = WriteCsv(exposure_csv, agg')
    /\ pc' = "s4_written"
    /\ UNCHANGED <<rc, varsRaw, da_gpkg, sensitivity_csv, adaptive_capacity_csv,
                   hvi_components_csv, hvi_geojson, hvi_regions_components_csv,
                   hvi_regions_geojson, advisory, col, normed, w, da_region, before, selected>>

NextExposure == S4_Clean \/ S4_Dedup \/ S4_Aggregate

SpecExposure == InitExposure /\ [][NextExposure]_vars

---------------------------------------------------------------------------
(* SpecFilter: stage 1 on every pair of unit polygons and every region     *)
(* layout within the bounds, the other raw inputs being present            *)

\* The polygons of the strip that are one run of cells.
Intervals == {a..b : a, b \in Cells} \ {{}}
ValidUnits(id) ==
    {[DGUID |-> id, cells |-> c, rep |-> r, simp |-> c, valid |-> TRUE, buf0 |-> c] :
        <<c, r>> \in {x \in Intervals \X Cells : x[2] \in x[1]}}

Region(name, cells) == [FullName |-> name, cells |-> cells, simp |-> cells]

RegionLayouts ==
    {<<Region("Burnaby", {2, 3})>>,
     <<Region("Burnaby", {1, 2}), Region("Surrey", {4})>>,
     <<Region("Surrey", {5})>>}

AdminFile(regions) ==
    [crs |-> TRUE, cols |-> {"FullName", "ShortName", "MunNum"}, rows |-> regions]

InitFilter ==
    /\ pc = "s1_start"
    /\ rc = NeverRun
    /\ da_shp \in {File([crs |-> TRUE, cols |-> {"DGUID", "DAUID"}, rows |-> <<u1, u2>>]) :
                      u1 \in ValidUnits(IdA), u2 \in ValidUnits(IdB)}
    /\ admin_shp \in {File(AdminFile(r)) : r \in RegionLayouts}
    /\ census_csv = File(<<>>)
    /\ landcover_tif = File(<<>>)
    /\ wtlst_csv = File(<<>>)
    /\ dmti_csv = File(<<>>)
    /\ argsort = <<>>
    /\ NoArtifacts
    /\ NoLocals

S1_Run ==
    /\ pc = "s1_start"
    /\ Stage1
    /\ pc' = "s1_done"
    /\ UNCHANGED <<varsRaw, sensitivity_csv, adaptive_capacity_csv, exposure_csv,
                   hvi_components_csv, hvi_geojson, hvi_regions_components_csv,
                   hvi_regions_geojson, varsLocal>>

NextFilter == S1_Run

SpecFilter == InitFilter /\ [][NextFilter]_vars

---------------------------------------------------------------------------
(* SpecComposite: stage 5 on every combination of present, null and missing *)
(* component rows for two units of a three-unit layer, with and without     *)
(* rows for an identifier that is not in the layer                          *)

IdX == <<0, 9, 1>>

CompositeLayer ==
    [cols |-> {"DGUID"},
     rows |-> <<[DGUID |-> IdA, cells |-> {1, 2}, rep |-> 1, simp |-> {1, 2}],
                [DGUID |-> IdB, cells |-> {4}, rep |-> 4, simp |-> {4}],
                [DGUID |-> IdC, cells |-> {3}, rep |-> 3, simp |-> {3}]>>,
     metro_admin_boundaries |-> <<Region("Burnaby", {1, 2, 3, 4})>>,
     metro_union |-> {1, 2, 3, 4}]

\* A unit's row of a table: none, or one holding the value.
SOpts == {<<>>, <<Frac(4, 5)>>, <<Frac(1, 5)>>}
AOpts == {<<Null>>, <<Frac(3, 10)>>, <<One>>}
EOpts == {<<>>, <<Null>>, <<Zero>>, <<Frac(1, 2)>>}

SensRows(id, pop, opt) ==
    [k \in DOMAIN opt |->
        [DGUID |-> id, pop_total |-> pop, sensitivity_index |-> opt[k]]]
AdaptRows(id, opt) ==
    [k \in DOMAIN opt |-> [DGUID |-> id, adaptive_capacity_index |-> opt[k]]]
ExpoRows(id, opt) ==
    [k \in DOMAIN opt |-> [DGUID |-> id, exposure_index |-> opt[k]]]

Stage5InputsOnly ==
    /\ da_shp = Absent /\ census_csv = Absent /\ landcover_tif = Absent
    /\ wtlst_csv = Absent /\ dmti_csv = Absent /\ argsort = <<>>
    /\ hvi_components_csv = Absent /\ hvi_geojson = Absent
    /\ hvi_regions_components_csv = Absent /\ hvi_regions_geojson = Absent
    /\ advisory = {}
    /\ NoLocals

InitComposite ==
    /\ pc = "s5_start"
    /\ rc = NeverRun
    /\ da_gpkg = File(CompositeLayer)
    /\ admin_shp = File(AdminFile(CompositeLayer.metro_admin_boundaries))
    /\ \E sa \in SOpts, sb \in SOpts, aa \in AOpts, ab \in AOpts,
          ea \in EOpts, eb \in EOpts, foreign \in {<<>>, <<Frac(1, 2)>>} :
          /\ sensitivity_csv =
                File(SensRows(IdX, Num(50), foreign) \o SensRows(IdA, Num(100), sa)
                     \o SensRows(IdB, Num(300), sb)
                     \o SensRows(IdC, Num(200), <<Frac(1, 2)>>))
          /\ adaptive_capacity_csv =
                File(AdaptRows(IdA, aa) \o AdaptRows(IdX, foreign)
                     \o AdaptRows(IdB, ab) \o AdaptRows(IdC, <<Frac(1, 2)>>))
          /\ exposure_csv =
                File(ExpoRows(IdA, ea) \o ExpoRows(IdB, eb)
                     \o ExpoRows(IdC, <<One>>) \o ExpoRows(IdX, foreign))
    /\ Stage5InputsOnly

S5_Run ==
    /\ pc = "s5_start"
    /\ Stage5
    /\ pc' = "s5_done"
    /\ UNCHANGED <<varsRaw, da_gpkg, sensitivity_csv, adaptive_capacity_csv,
                   exposure_csv, col, normed, w, agg, before, selected>>

NextComposite == S5_Run

SpecComposite == InitComposite /\ [][NextComposite]_vars

---------------------------------------------------------------------------
(* SpecAssign: stage 5 on every unit polygon of the strip, every polygon    *)
(* simplify() may return for it and several region layouts                  *)

\* simplify(tolerance) moves the boundary by at most the tolerance: either
\* end of the unit may lose or gain a sliver (one cell), and the result
\* still overlaps the unit.
Simplifications(c) ==
    {s \in Intervals :
        LET lo(x) == CHOOSE e \in x : \A f \in x : e <= f
            hi(x) == CHOOSE e \in x : \A f \in x : f <= e
        IN  /\ s \cap c # {}
            /\ lo(s) - lo(c) \in {-1, 0, 1} /\ hi(s) - hi(c) \in {-1, 0, 1}}

AssignUnits(id) ==
    {[DGUID |-> id, cells |-> c, rep |-> r, simp |-> s] :
        <<c, r, s>> \in {x \in Intervals \X Cells \X Intervals :
                            x[2] \in x[1] /\ x[3] \in Simplifications(x[1])}}

AssignLayouts ==
    {<<Region("Burnaby", {1, 2, 3}), Region("Surrey", {4, 5})>>,
     <<Region("Surrey", {4, 5}), Region("Burnaby", {1, 2, 3})>>,
     <<Region("Burnaby", {1, 2}), Region("Surrey", {3, 4})>>,
     <<Region("Anmore", {1}), Region("Burnaby", {2, 3}), Region("Surrey", {4, 5})>>,
     <<Region("Burnaby", {1, 2, 3}), Region("Surrey", {3, 4})>>}

\* The layer stage 1 wrote: every unit's representative point is in the mask.
Layer(units, regions) ==
    [cols |-> {"DGUID"}, rows |-> units, metro_admin_boundaries |-> regions,
     metro_union |-> MetroUnion(regions)]

InitAssign ==
    /\ pc = "s5_start"
    /\ rc = NeverRun
    /\ \E ua \in AssignUnits(IdA),
          ub \in {[DGUID |-> IdB, cells |-> {4}, rep |-> 4, simp |-> {4}],
                  [DGUID |-> IdB, cells |-> {1, 2}, rep |-> 2, simp |-> {1}]},
          regions \in AssignLayouts :
          /\ ua.rep \in MetroUnion(regions) /\ ub.rep \in MetroUnion(regions)
          /\ da_gpkg = File(Layer(<<ua, ub>>, regions))
          /\ admin_shp = File(AdminFile(regions))
    /\ sensitivity_csv =
          File(SensRows(IdA, Num(100), <<Frac(4, 5)>>)
               \o SensRows(IdB, Num(300), <<Frac(1, 5)>>))
    /\ adaptive_capacity_csv =
          File(AdaptRows(IdA, <<Frac(3, 10)>>) \o AdaptRows(IdB, <<One>>))
    /\ exposure_csv = File(ExpoRows(IdA, <<Frac(1, 2)>>) \o ExpoRows(IdB, <<One>>))
    /\ Stage5InputsOnly

NextAssign == S5_Run

SpecAssign == InitAssign /\ [][NextAssign]_vars

---------------------------------------------------------------------------
(* SpecRegion: stage 5 on every combination of populations and raw scores   *)
(* of three units under several region layouts                              *)

PopOpts == {Null, Zero, Num(100), Num(300)}
RawOpts == {Null, Frac(1, 5), Frac(3, 5)}

\* The third unit keeps its representative point (cell 3) but loses that
\* cell to simplification.
RegionUnits ==
    <<[DGUID |-> IdA, cells |-> {1}, rep |-> 1, simp |-> {1}],
      [DGUID |-> IdB, cells |-> {2}, rep |-> 2, simp |-> {2}],
      [DGUID |-> IdC, cells |-> {3, 4}, rep |-> 3, simp |-> {4}]>>

WeightLayouts ==
    {<<Region("Burnaby", {1, 2, 3}), Region("Surrey", {4, 5})>>,
     <<Region("Burnaby", {1, 2, 3})>>,
     <<Region("Surrey", {2, 3}), Region("Burnaby", {1}), Region("Anmore", {4, 5})>>,
     <<Region("Burnaby", {1, 2, 3, 4, 5})>>}

InitRegion ==
    /\ pc = "s5_start"
    /\ rc = NeverRun
    /\ \E regions \in WeightLayouts :
          /\ da_gpkg = File(Layer(RegionUnits, regions))
          /\ admin_shp = File(AdminFile(regions))
    /\ \E pa \in PopOpts, pb \in PopOpts, pcc \in {Zero, Num(200)},
          ra \in RawOpts, rb \in RawOpts, rcc \in {Null, Frac(3, 5)} :
          sensitivity_csv =
             File(SensRows(IdA, pa, <<ra>>) \o SensRows(IdB, pb, <<rb>>)
                  \o SensRows(IdC, pcc, <<rcc>>))
    /\ adaptive_capacity_csv =
          File(AdaptRows(IdA, <<Zero>>) \o AdaptRows(IdB, <<Zero>>)
               \o AdaptRows(IdC, <<Zero>>))
    /\ exposure_csv =
          File(ExpoRows(IdA, <<One>>) \o ExpoRows(IdB, <<One>>)
               \o ExpoRows(IdC, <<One>>))
    /\ Stage5InputsOnly

NextRegion == S5_Run

SpecRegion == InitRegion /\ [][NextRegion]_vars

---------------------------------------------------------------------------
(* Spec: the five stages invoked in any order, any number of times, on raw  *)
(* inputs that are each present or missing, starting from an empty          *)
(* intermediate directory                                                   *)

RawUnit(id, cells, rep) ==
    [DGUID |-> id, cells |-> cells, rep |-> rep, simp |-> cells,
     valid |-> TRUE, buf0 |-> cells]

\* Three units, the third outside the regions; the key column is DGUID, or
\* DAUID alone.
SampleDaFiles ==
    {[crs |-> TRUE, cols |-> k,
      rows |-> <<RawUnit(IdA, {1, 2}, 1), RawUnit(IdB, {4}, 4), RawUnit(IdC, {5}, 5)>>] :
        k \in {{"DGUID", "DAUID"}, {"DAUID"}}}

SampleAdmin == AdminFile(<<Region("Burnaby", {1, 2}), Region("Surrey", {3, 4})>>)

\* The same regions in a boundary file that has no FullName column.
UnnamedAdmin == [SampleAdmin EXCEPT !.cols = {"ShortName", "MunNum"}]

CensusRow(id, level, name, count, rate) ==
    [DGUID |-> id, GEO_LEVEL |-> level, CHARACTERISTIC_NAME |-> name,
     C1_COUNT_TOTAL |-> count, C10_RATE_TOTAL |-> rate]

SampleCensus ==
    <<CensusRow(IdA, "Province", "Population, 2021", Num(5000), Null),
      CensusRow(IdA, "Dissemination area", "Population, 2021", Num(100), Null),
      CensusRow(IdA, "Dissemination area", "Unemployment rate ", Null, Num(8)),
      CensusRow(IdA, "Dissemination area", "65 to 74 years", Num(10), Null),
      CensusRow(IdA, "Dissemination area", "75 years and over", Num(5), Null),
      CensusRow(IdA, "Dissemination area", "Total - Age groups", Num(100), Null),
      CensusRow(IdB, "Dissemination area", "Population, 2021", Num(300), Null),
      CensusRow(IdB, "Dissemination area", "Unemployment rate", Null, Num(4)),
      CensusRow(IdB, "Dissemination area", "  Living alone", Num(30), Null),
      CensusRow(IdC, "Dissemination area", "Population, 2021", Num(200), Null)>>

\* A census file without a row of the finest geography level.
ProvinceCensus == <<CensusRow(IdA, "Province", "Population, 2021", Num(5000), Null)>>

\* Cells 1..4: conifers, a non-vegetation class, no data, broadleaf.
SampleRaster == [crs |-> TRUE, px |-> (1 :> 6) @@ (2 :> 1) @@ (3 :> 0) @@ (4 :> 7)]

\* Postal code 1 has two rows.
SampleWtlst ==
    <<[postalcode |-> <<1, "raw">>, wtlst |-> Num(45)],
      [postalcode |-> <<2, "clean">>, wtlst |-> Num(20)],
      [postalcode |-> <<1, "clean">>, wtlst |-> Num(30)]>>

Init ==
    /\ pc = "idle"
    /\ rc = NeverRun
    /\ da_shp \in {Absent} \cup {File(f) : f \in SampleDaFiles}
    /\ admin_shp \in {Absent, File(SampleAdmin), File(UnnamedAdmin)}
    /\ census_csv \in {Absent, File(SampleCensus), File(ProvinceCensus)}
    /\ landcover_tif \in {Absent, File(SampleRaster)}
    /\ wtlst_csv \in {Absent, File(SampleWtlst)}
    /\ argsort \in IF Exists(wtlst_csv) THEN SortPicks(CleanW(Content(wtlst_csv)))
                   ELSE {<<>>}
    /\ dmti_csv \in {Absent, File(SampleDmti)}
    /\ NoArtifacts
    /\ NoLocals

Run1 ==
    /\ Stage1
    /\ pc' = "stage1"
    /\ UNCHANGED <<varsRaw, sensitivity_csv, adaptive_capacity_csv, exposure_csv,
                   hvi_components_csv, hvi_geojson, hvi_regions_components_csv,
                   hvi_regions_geojson, varsLocal>>

Run2 ==
    /\ Stage2
    /\ pc' = "stage2"
    /\ UNCHANGED <<varsRaw, da_gpkg, adaptive_capacity_csv, exposure_csv,
                   hvi_components_csv, hvi_geojson, hvi_regions_components_csv,
                   hvi_regions_geojson, varsLocal>>

Run3 ==
    /\ Stage3
    /\ pc' = "stage3"
    /\ UNCHANGED <<varsRaw, da_gpkg, sensitivity_csv, exposure_csv,
                   hvi_components_csv, hvi_geojson, hvi_regions_components_csv,
                   hvi_regions_geojson, varsLocal>>

Run4 ==
    /\ Stage4
    /\ pc' = "stage4"
    /\ UNCHANGED <<varsRaw, da_gpkg, sensitivity_csv, adaptive_capacity_csv,
                   hvi_components_csv, hvi_geojson, hvi_regions_components_csv,
                   hvi_regions_geojson, varsLocal>>

Run5 ==
    /\ Stage5
    /\ pc' = "stage5"
    /\ UNCHANGED <<varsRaw, da_gpkg, sensitivity_csv, adaptive_capacity_csv,
                   exposure_csv, col, normed, w, agg, before, selected>>

Next == Run1 \/ Run2 \/ Run3 \/ Run4 \/ Run5

Spec == Init /\ [][Next]_vars

---------------------------------------------------------------------------
(* Claims about normalize_01 (checked under SpecNorm) *)

\* C3: every non-null value returned by normalize_01 lies in [0,1], and a
\* null input position stays null in the output (the output has the input's
\* length).
C3_NormalizedInUnitInterval ==
    pc = "normalized" =>
        /\ Len(normed) = Len(col)
        /\ \A i \in DOMAIN col :
              /\ IsNull(col[i]) => IsNull(normed[i])
              /\ NotNull(normed[i]) => FLe(Zero, normed[i]) /\ FLe(normed[i], One)

\* A column with a null and three distinct numbers has been normalized: the
\* null stayed null and a value strictly inside (0,1) was produced.
C3_Witness ==
    /\ pc = "normalized"
    /\ \E i \in DOMAIN col : IsNull(col[i])
    /\ \E i \in DOMAIN normed :
          NotNull(normed[i]) /\ FLt(Zero, normed[i]) /\ FLt(normed[i], One)

\* C4: when the non-null values of the column are all equal, or the column
\* is entirely null or empty, normalize_01 returns null at every position.
C4_DegenerateColumnAllNull ==
    (pc = "normalized" /\ Cardinality(NonNulls(col)) <= 1) =>
        /\ Len(normed) = Len(col)
        /\ \A i \in DOMAIN normed : IsNull(normed[i])

\* The column [5, 5, 5] has been normalized to [null, null, null].
C4_Witness ==
    /\ pc = "normalized"
    /\ col = <<Num(5), Num(5), Num(5)>>
    /\ normed = <<Null, Null, Null>>

---------------------------------------------------------------------------
(* Claims about stage 4 (checked under SpecExposure) *)

\* The value of row i of the value table as parsed from the file.
RawWtlst(i) == Content(wtlst_csv)[i].wtlst
IsSentinel(v) == v = Num(-9999) \/ v = Num(-999)
InSanityRange(v) == FLe(Num(-50), v) /\ FLe(v, Num(80))

\* C8: after cleaning, a value is null if it is a sentinel (-9999, -999) or
\* lies outside [-50, 80], and is unchanged otherwise; so every non-null
\* cleaned value is a non-sentinel within [-50, 80].
C8_CleaningNullsSentinelsAndOutOfRange ==
    pc = "s4_cleaned" =>
        /\ Len(w) = Len(Content(wtlst_csv))
        /\ \A i \in DOMAIN w :
              /\ w[i].wtlst =
                    IF NotNull(RawWtlst(i))
                       /\ (IsSentinel(RawWtlst(i)) \/ ~InSanityRange(RawWtlst(i)))
                    THEN Null ELSE RawWtlst(i)
              /\ NotNull(w[i].wtlst) =>
                    ~IsSentinel(w[i].wtlst) /\ InSanityRange(w[i].wtlst)

\* The table [-9999, 45] has been cleaned to [null, 45].
C8_Witness ==
    /\ pc = "s4_cleaned"
    /\ Len(w) = 2
    /\ RawWtlst(1) = Num(-9999) /\ IsNull(w[1].wtlst)
    /\ RawWtlst(2) = Num(45) /\ w[2].wtlst = Num(45)

---------------------------------------------------------------------------
(* Claims about stage 1 (checked under SpecFilter) *)

RawUnits == Content(da_shp).rows
RegionMask == MetroUnion(Content(admin_shp).rows)
KeptIds == IF Exists(da_gpkg)
           THEN {Content(da_gpkg).rows[i].DGUID : i \in DOMAIN Content(da_gpkg).rows}
           ELSE {}

\* C9: stage 1 keeps a unit if and only if its representative point is
\* within the unioned region mask, whatever part of its polygon overlaps
\* the mask; when no unit qualifies nothing is written.
C9_KeptIffRepresentativePointInMask ==
    pc = "s1_done" =>
        /\ \A i \in DOMAIN RawUnits :
              RawUnits[i].DGUID \in KeptIds <=> (rc[1] = 0 /\ RawUnits[i].rep \in RegionMask)
        /\ rc[1] = 0 <=> \E i \in DOMAIN RawUnits : RawUnits[i].rep \in RegionMask

\* Stage 1 succeeded; one unit lies mostly inside the mask with its
\* representative point outside and was excluded, the other lies mostly
\* outside with its representative point inside and was kept.
C9_Witness ==
    /\ pc = "s1_done" /\ rc[1] = 0
    /\ \E i \in DOMAIN RawUnits :
          /\ RawUnits[i].rep \notin RegionMask
          /\ 2 * Cardinality(RawUnits[i].cells \cap RegionMask) > Cardinality(RawUnits[i].cells)
          /\ RawUnits[i].DGUID \notin KeptIds
    /\ \E i \in DOMAIN RawUnits :
          /\ RawUnits[i].rep \in RegionMask
          /\ 2 * Cardinality(RawUnits[i].cells \cap RegionMask) < Cardinality(RawUnits[i].cells)
          /\ RawUnits[i].DGUID \in KeptIds

---------------------------------------------------------------------------
(* Claims about the stage-5 composite (checked under SpecComposite) *)

Components == Content(hvi_components_csv)
AllThreePresent(r) ==
    /\ NotNull(r.sensitivity_index)
    /\ NotNull(r.adaptive_capacity_index)
    /\ NotNull(r.exposure_index)
IdsOf(rows) == {rows[i].DGUID : i \in DOMAIN rows}

\* C1: in the composite output, hvi_raw of a unit is non-null if and only
\* if its sensitivity, adaptive-capacity and exposure indices are all
\* non-null, and hvi_index_n01 is non-null only if hvi_raw is non-null.
C1_RawNonNullIffComplete ==
    (pc = "s5_done" /\ Exists(hvi_components_csv)) =>
        \A i \in DOMAIN Components :
            /\ NotNull(Components[i].hvi_raw) <=> AllThreePresent(Components[i])
            /\ NotNull(Components[i].hvi_index_n01) => NotNull(Components[i].hvi_raw)

\* The composite holds a complete unit with a raw and a normalized score
\* and a unit that lacks one index and has neither.
C1_Witness ==
    /\ pc = "s5_done" /\ Exists(hvi_components_csv)
    /\ \E i \in DOMAIN Components :
          /\ AllThreePresent(Components[i])
          /\ NotNull(Components[i].hvi_raw)
          /\ NotNull(Components[i].hvi_index_n01)
    /\ \E i \in DOMAIN Components :
          /\ NotNull(Components[i].sensitivity_index)
          /\ NotNull(Components[i].exposure_index)
          /\ IsNull(Components[i].adaptive_capacity_index)
          /\ IsNull(Components[i].hvi_raw)
          /\ IsNull(Components[i].hvi_index_n01)

\* C2: whatever rows the three component tables hold (rows missing for a
\* unit, rows for identifiers outside the layer), the identifiers of the
\* composite outputs of stage 5 are exactly the identifiers of the unit
\* layer written by stage 1.
C2_CompositeKeepsUnitUniverse ==
    pc = "s5_done" =>
        /\ Exists(hvi_components_csv) /\ Exists(hvi_geojson)
        /\ IdsOf(Components) = IdsOf(Content(da_gpkg).rows)
        /\ IdsOf(Content(hvi_geojson)) = IdsOf(Content(da_gpkg).rows)
        /\ Len(Components) = Len(Content(da_gpkg).rows)

\* Stage 5 ran on tables that lack a row for unit IdA and hold rows for the
\* foreign identifier IdX; the composite holds IdA and not IdX.
C2_Witness ==
    /\ pc = "s5_done" /\ Exists(hvi_components_csv)
    /\ IdA \notin IdsOf(Content(sensitivity_csv))
    /\ IdB \notin IdsOf(Content(exposure_csv))
    /\ IdX \in IdsOf(Content(sensitivity_csv))
    /\ IdA \in IdsOf(Components) /\ IdB \in IdsOf(Components)
    /\ IdX \notin IdsOf(Components)

\* C6: for every complete unit hvi_raw = exposure_index * (sensitivity_index
\* - adaptive_capacity_index); a complete unit with exposure_index 0 has
\* hvi_raw 0.
C6_RawIsExposureTimesNetSensitivity ==
    (pc = "s5_done" /\ Exists(hvi_components_csv)) =>
        \A i \in DOMAIN Components :
            AllThreePresent(Components[i]) =>
                /\ Components[i].hvi_raw =
                      FMul(Components[i].exposure_index,
                           FSub(Components[i].sensitivity_index,
                                Components[i].adaptive_capacity_index))
                /\ Components[i].exposure_index = Zero => Components[i].hvi_raw = Zero

\* A unit with sensitivity 0.8, adaptive capacity 0.3 and exposure 0.5 has
\* hvi_raw 0.25, and a complete unit with exposure 0 has hvi_raw 0.
C6_Witness ==
    /\ pc = "s5_done" /\ Exists(hvi_components_csv)
    /\ \E i \in DOMAIN Components :
          /\ Components[i].sensitivity_index = Frac(4, 5)
          /\ Components[i].adaptive_capacity_index = Frac(3, 10)
          /\ Components[i].exposure_index = Frac(1, 2)
          /\ Components[i].hvi_raw = Frac(1, 4)
    /\ \E i \in DOMAIN Components :
          /\ AllThreePresent(Components[i])
          /\ Components[i].exposure_index = Zero
          /\ Components[i].sensitivity_index # Components[i].adaptive_capacity_index
          /\ Components[i].hvi_raw = Zero

---------------------------------------------------------------------------
(* Claims about the region assignment (checked under SpecAssign) *)

Regions == Content(admin_shp).rows
\* The polygon of a unit as stage 1 wrote it.
UnitCells(id) ==
    LET rows == Content(da_gpkg).rows
    IN  rows[CHOOSE i \in DOMAIN rows : rows[i].DGUID = id].cells
InterArea(id, g) == Cardinality(UnitCells(id) \cap g.cells)

\* C5: every unit has at most one assigned region; a unit that intersects
\* no region has none; and the assigned region's intersection area with the
\* unit is at least that of every other region.
C5_AssignedRegionHasMaxIntersection ==
    (pc = "s5_done" /\ da_region # <<>>) =>
        /\ Len(da_region) = Len(Content(da_gpkg).rows)
        /\ \A i \in DOMAIN da_region :
              /\ (\A k \in DOMAIN Regions : InterArea(da_region[i].DGUID, Regions[k]) = 0)
                    => da_region[i].FullName = NoRegion
              /\ da_region[i].FullName # NoRegion =>
                    \E k \in DOMAIN Regions :
                        /\ Regions[k].FullName = da_region[i].FullName
                        /\ \A j \in DOMAIN Regions :
                              InterArea(da_region[i].DGUID, Regions[j])
                                 <= InterArea(da_region[i].DGUID, Regions[k])

---------------------------------------------------------------------------
(* Claims about the region scores (checked under SpecRegion) *)

RegionTable == Content(hvi_regions_components_csv)
Contributors(name) ==
    LET counts(r) == /\ r.FullName = name
                     /\ NotNull(r.pop_total) /\ FLt(Zero, r.pop_total)
                     /\ NotNull(r.hvi_raw)
    IN  SelectSeq(da_region, counts)
WeightedSum(rows) == FSum([i \in DOMAIN rows |-> FMul(rows[i].pop_total, rows[i].hvi_raw)])
PopSum(rows) == FSum([i \in DOMAIN rows |-> rows[i].pop_total])

\* C7: region_hvi_raw_pw of a region is sum(pop_total * hvi_raw) /
\* sum(pop_total) over exactly the units assigned to it that have non-null
\* positive pop_total and non-null hvi_raw; a region without such a unit has
\* no score, so other units contribute to no region's score.
C7_RegionScoreIsPopulationWeightedMean ==
    (pc = "s5_done" /\ rc[5] = 0) =>
        /\ \A k \in DOMAIN RegionTable :
              /\ \E j \in DOMAIN Regions : Regions[j].FullName = RegionTable[k].FullName
              /\ \A j \in DOMAIN RegionTable :
                    RegionTable[j].FullName = RegionTable[k].FullName => j = k
        /\ \A j \in DOMAIN Regions :
              LET q == Contributors(Regions[j].FullName)
              IN  IF q = <<>>
                  THEN \A k \in DOMAIN RegionTable :
                          RegionTable[k].FullName # Regions[j].FullName
                  ELSE \E k \in DOMAIN RegionTable :
                          /\ RegionTable[k].FullName = Regions[j].FullName
                          /\ RegionTable[k].region_hvi_raw_pw =
                                FDiv(WeightedSum(q), PopSum(q))

\* Units of population 100 and 300 with raw scores 0.2 and 0.6 gave their
\* region the score 0.5 over a population of 400, while a unit of the same
\* region with population 0 and an unassigned unit changed nothing.
C7_Witness ==
    /\ pc = "s5_done" /\ rc[5] = 0
    /\ \E k \in DOMAIN RegionTable :
          /\ RegionTable[k].region_hvi_raw_pw = Frac(1, 2)
          /\ RegionTable[k].region_pop_total = Num(400)
          /\ \E i \in DOMAIN da_region :
                /\ da_region[i].FullName = RegionTable[k].FullName
                /\ da_region[i].pop_total = Num(100)
                /\ da_region[i].hvi_raw = Frac(1, 5)
          /\ \E i \in DOMAIN da_region :
                /\ da_region[i].FullName = RegionTable[k].FullName
                /\ da_region[i].pop_total = Num(300)
                /\ da_region[i].hvi_raw = Frac(3, 5)
          /\ \E i \in DOMAIN da_region :
                /\ da_region[i].FullName = RegionTable[k].FullName
                /\ da_region[i].pop_total = Zero
                /\ da_region[i].hvi_raw = Frac(3, 5)

---------------------------------------------------------------------------
(* Claims about the order of the stages (checked under Spec) *)

\* The artifacts a stage writes, reports and previews aside.
Artifacts ==
    <<da_gpkg, sensitivity_csv, adaptive_capacity_csv, exposure_csv,
      hvi_components_csv, hvi_geojson, hvi_regions_components_csv,
      hvi_regions_geojson>>

\* What C10 asks of one step of the pipeline.
DependenciesRespected ==
    /\ (pc' \in {"stage2", "stage3", "stage4"} /\ ~Exists(da_gpkg)) =>
          /\ pc' = "stage2" => rc'[2] = 1
          /\ pc' = "stage3" => rc'[3] = 1
          /\ pc' = "stage4" => rc'[4] = 1
          /\ Artifacts' = Artifacts
    /\ (/\ pc' = "stage5"
        /\ \/ ~Exists(da_gpkg) \/ ~Exists(sensitivity_csv)
           \/ ~Exists(adaptive_capacity_csv) \/ ~Exists(exposure_csv)) =>
          /\ rc'[5] = 1
          /\ Artifacts' = Artifacts
    /\ (rc'[2] = 0 \/ Exists(sensitivity_csv')) => Exists(da_gpkg')
    /\ (rc'[3] = 0 \/ Exists(adaptive_capacity_csv')) => Exists(da_gpkg')
    /\ (rc'[4] = 0 \/ Exists(exposure_csv')) => Exists(da_gpkg')
    /\ (rc'[5] = 0 \/ Exists(hvi_components_csv') \/ Exists(hvi_geojson')
        \/ Exists(hvi_regions_components_csv') \/ Exists(hvi_regions_geojson')) =>
          /\ Exists(da_gpkg') /\ Exists(sensitivity_csv')
          /\ Exists(adaptive_capacity_csv') /\ Exists(exposure_csv')

\* C10: in every sequence of stage runs from an empty intermediate
\* directory, a run of stage 2, 3 or 4 while da.gpkg is missing returns
\* failure and writes no artifact, and a run of stage 5 while da.gpkg,
\* sensitivity.csv, adaptive_capacity.csv or exposure.csv is missing returns
\* failure and writes no artifact; so no stage has succeeded, and no
\* artifact of it exists, before its dependencies exist.
C10_NoStageSucceedsBeforeItsDependencies == [][DependenciesRespected]_vars

\* Stage 5 has failed with every raw input present and da.gpkg,
\* sensitivity.csv and exposure.csv written but adaptive_capacity.csv
\* missing, and stage 2 has failed earlier: no composite file exists.
C10_Witness ==
    /\ pc = "stage5" /\ rc[5] = 1
    /\ rc[1] = 0 /\ rc[2] = 0 /\ rc[4] = 0 /\ rc[3] = -1
    /\ Exists(da_gpkg) /\ Exists(sensitivity_csv) /\ Exists(exposure_csv)
    /\ ~Exists(adaptive_capacity_csv)
    /\ ~Exists(hvi_components_csv) /\ ~Exists(hvi_geojson)

---------------------------------------------------------------------------
(* Claims about the outcome of one stage run (checked under Spec) *)

\* What C11 asks of one step of the pipeline: the stage that ran returned
\* success and each of its artifacts exists, or it returned failure and none
\* of its artifacts was touched.
AllOrNothing ==
    /\ pc' = "stage1" =>
          IF rc'[1] = 0 THEN Exists(da_gpkg') ELSE da_gpkg' = da_gpkg
    /\ pc' = "stage2" =>
          IF rc'[2] = 0 THEN Exists(sensitivity_csv')
          ELSE sensitivity_csv' = sensitivity_csv
    /\ pc' = "stage3" =>
          IF rc'[3] = 0 THEN Exists(adaptive_capacity_csv')
          ELSE adaptive_capacity_csv' = adaptive_capacity_csv
    /\ pc' = "stage4" =>
          IF rc'[4] = 0 THEN Exists(exposure_csv')
          ELSE exposure_csv' = exposure_csv
    /\ pc' = "stage5" =>
          IF rc'[5] = 0
          THEN /\ Exists(hvi_components_csv') /\ Exists(hvi_geojson')
               /\ Exists(hvi_regions_components_csv') /\ Exists(hvi_regions_geojson')
          ELSE /\ hvi_components_csv' = hvi_components_csv
               /\ hvi_geojson' = hvi_geojson
               /\ hvi_regions_components_csv' = hvi_regions_components_csv
               /\ hvi_regions_geojson' = hvi_regions_geojson

\* C11: every run of a stage either returns success having written all of
\* its artifacts, or returns failure having written none of its score
\* tables and vector files.
C11_NoPartialSuccess == [][AllOrNothing]_vars

---------------------------------------------------------------------------
(* SpecRerun: the five stages invoked in any order, any number of times,   *)
(* on raw inputs that are all present, each run recording the exit         *)
(* statuses and artifacts it found                                         *)

Snapshot == [rc |-> rc, files |-> Artifacts]

InitRerun ==
    /\ pc = "idle"
    /\ rc = NeverRun
    /\ da_shp \in {File(f) : f \in SampleDaFiles}
    /\ admin_shp \in {File(SampleAdmin), File(UnnamedAdmin)}
    /\ census_csv \in {File(SampleCensus), File(ProvinceCensus)}
    /\ landcover_tif = File(SampleRaster)
    /\ wtlst_csv = File(SampleWtlst)
    /\ argsort \in SortPicks(CleanW(Content(wtlst_csv)))
    /\ dmti_csv = File(SampleDmti)
    /\ NoArtifacts
    /\ NoLocals

Again1 ==
    /\ before' = Snapshot
    /\ Stage1
    /\ pc' = "stage1"
    /\ UNCHANGED <<varsRaw, sensitivity_csv, adaptive_capacity_csv, exposure_csv,
                   hvi_components_csv, hvi_geojson, hvi_regions_components_csv,
                   hvi_regions_geojson, col, normed, w, agg, da_region, selected>>

Again2 ==
    /\ before' = Snapshot
    /\ Stage2
    /\ pc' = "stage2"
    /\ UNCHANGED <<varsRaw, da_gpkg, adaptive_capacity_csv, exposure_csv,
                   hvi_components_csv, hvi_geojson, hvi_regions_components_csv,
                   hvi_regions_geojson, col, normed, w, agg, da_region, selected>>

Again3 ==
    /\ before' = Snapshot
    /\ Stage3
    /\ pc' = "stage3"
    /\ UNCHANGED <<varsRaw, da_gpkg, sensitivity_csv, exposure_csv,
                   hvi_components_csv, hvi_geojson, hvi_regions_components_csv,
                   hvi_regions_geojson, col, normed, w, agg, da_region, selected>>

Again4 ==
    /\ before' = Snapshot
    /\ Stage4
    /\ pc' = "stage4"
    /\ UNCHANGED <<varsRaw, da_gpkg, sensitivity_csv, adaptive_capacity_csv,
                   hvi_components_csv, hvi_geojson, hvi_regions_components_csv,
                   hvi_regions_geojson, col, normed, w, agg, da_region, selected>>

Again5 ==
    /\ before' = Snapshot
    /\ Stage5
    /\ pc' = "stage5"
    /\ UNCHANGED <<varsRaw, da_gpkg, sensitivity_csv, adaptive_capacity_csv,
                   exposure_csv, col, normed, w, agg, selected>>

NextRerun == Again1 \/ Again2 \/ Again3 \/ Again4 \/ Again5

SpecRerun == InitRerun /\ [][NextRerun]_vars

\* The positions in Artifacts of the files a stage writes.
Outputs(k) == IF k = 5 THEN {5, 6, 7, 8} ELSE {k}
StageName == <<"stage1", "stage2", "stage3", "stage4", "stage5">>

---------------------------------------------------------------------------
(* Claims about the geometry stage 5 overlays (checked under SpecAssign) *)

\* The unit layer as stage 1 wrote it, as a frame for the overlay.
UnsimplifiedFrame ==
    LET rows == Content(da_gpkg).rows
    IN  [i \in DOMAIN rows |-> [DGUID |-> rows[i].DGUID, geometry |-> rows[i].cells]]

\* C13: the overlay and the intersection areas that decide the region of a
\* unit are computed on the unsimplified unit polygons: the region recorded
\* for every unit is the one the overlay of the polygons of da.gpkg gives.
C13_OverlayUsesUnsimplifiedGeometry ==
    (pc = "s5_done" /\ da_region # <<>>) =>
        /\ Len(da_region) = Len(UnsimplifiedFrame)
        /\ \A i \in DOMAIN da_region :
              da_region[i].FullName =
                 DaRegion(UnsimplifiedFrame,
                          DaToRegion(Overlay(UnsimplifiedFrame, Regions)))[i].FullName

---------------------------------------------------------------------------
(* SpecKeys: stage 5 on a two-unit layer whose identifiers are digit       *)
(* strings with or without a leading zero, or end in a letter, the three   *)
(* tables holding a row for each unit under the identifier of the layer    *)

\* "01", "1", "2", "2S", "03".
KeyIds == {<<1, 1, 0>>, <<0, 1, 0>>, <<0, 2, 0>>, <<0, 2, 1>>, <<1, 3, 0>>}

InitKeys ==
    /\ pc = "s5_start"
    /\ rc = NeverRun
    /\ \E ia \in KeyIds, ib \in KeyIds,
          sa \in {Frac(4, 5), Frac(1, 5)}, aa \in {Frac(3, 10), One},
          ea \in {Zero, Frac(1, 2)} :
          /\ ia # ib
          /\ da_gpkg =
                File(Layer(<<[DGUID |-> ia, cells |-> {1, 2}, rep |-> 1, simp |-> {1, 2}],
                             [DGUID |-> ib, cells |-> {4}, rep |-> 4, simp |-> {4}]>>,
                           <<Region("Burnaby", {1, 2, 3, 4})>>))
          /\ sensitivity_csv =
                File(SensRows(ia, Num(100), <<sa>>) \o SensRows(ib, Num(300), <<Frac(1, 2)>>))
          /\ adaptive_capacity_csv =
                File(AdaptRows(ia, <<aa>>) \o AdaptRows(ib, <<Frac(1, 2)>>))
          /\ exposure_csv = File(ExpoRows(ia, <<ea>>) \o ExpoRows(ib, <<One>>))
    /\ admin_shp = File(AdminFile(<<Region("Burnaby", {1, 2, 3, 4})>>))
    /\ Stage5InputsOnly

NextKeys == S5_Run

SpecKeys == InitKeys /\ [][NextKeys]_vars

\* The rows of a table written under the identifier id.
RowsOf(table, id) == LET mine(r) == r.DGUID = id IN SelectSeq(table, mine)

\* C14: the joins of stage 5 match on the identifier as a string: a unit of
\* the layer, leading zero or not, gets the indices of the rows written for
\* its identifier in sensitivity.csv, adaptive_capacity.csv and
\* exposure.csv.
C14_JoinsMatchOnStringKey ==
    (pc = "s5_done" /\ Exists(hvi_components_csv)) =>
        \A i \in DOMAIN Components :
            /\ \A r \in Range(RowsOf(Content(sensitivity_csv), Components[i].DGUID)) :
                  Components[i].sensitivity_index = r.sensitivity_index
            /\ \A r \in Range(RowsOf(Content(adaptive_capacity_csv), Components[i].DGUID)) :
                  Components[i].adaptive_capacity_index = r.adaptive_capacity_index
            /\ \A r \in Range(RowsOf(Content(exposure_csv), Components[i].DGUID)) :
                  Components[i].exposure_index = r.exposure_index

---------------------------------------------------------------------------
(* Claims about the deduplication of stage 4 (checked under SpecExposure) *)

\* The value table after cleaning, before deduplication.
CleanedW == CleanW(Content(wtlst_csv))

\* C15: after deduplication the value table holds exactly one row per
\* postal code of the cleaned table, and the row kept for a postal code has
\* a non-null value whenever any row of that postal code has one, whatever
\* the order of the rows.
C15_DedupKeepsOneNonNullPreferringRow ==
    pc = "s4_deduped" =>
        /\ {w[k].postalcode : k \in DOMAIN w}
              = {CleanedW[i].postalcode : i \in DOMAIN CleanedW}
        /\ \A j, k \in DOMAIN w : w[j].postalcode = w[k].postalcode => j = k
        /\ \A k \in DOMAIN w :
              (\E i \in DOMAIN CleanedW :
                  /\ CleanedW[i].postalcode = w[k].postalcode
                  /\ NotNull(CleanedW[i].wtlst))
              => NotNull(w[k].wtlst)

---------------------------------------------------------------------------
(* Claims about the bounding-box pre-filter of stage 4 (checked under       *)
(* SpecBBox)                                                                *)

\* SpecBBox: the join and aggregation of stage 4 on every pair of disjoint
\* unit polygons of the strip and every placement of three postal codes'
\* points, the value table being cleaned and deduplicated already.
BBoxUnits ==
    {<<[DGUID |-> IdA, cells |-> a, rep |-> CHOOSE c \in a : TRUE, simp |-> a],
       [DGUID |-> IdB, cells |-> b, rep |-> CHOOSE c \in b : TRUE, simp |-> b]>> :
        <<a, b>> \in {x \in Intervals \X Intervals : x[1] \cap x[2] = {}}}

BBoxPoints ==
    {<<[postalcode |-> <<1, "raw">>, loc |-> l1],
       [postalcode |-> <<2, "clean">>, loc |-> l2],
       [postalcode |-> <<2, "raw">>, loc |-> l3]>> : l1, l2, l3 \in Cells}

InitBBox ==
    /\ pc = "s4_deduped"
    /\ rc = NeverRun
    /\ wtlst_csv = File(SampleWtlst)
    /\ argsort \in SortPicks(CleanW(Content(wtlst_csv)))
    /\ w = DedupW(CleanW(Content(wtlst_csv)), argsort)
    /\ dmti_csv \in {File(d) : d \in BBoxPoints}
    /\ da_gpkg \in {File(Layer(u, <<Region("Burnaby", Cells)>>)) : u \in BBoxUnits}
    /\ da_shp = Absent /\ admin_shp = Absent /\ census_csv = Absent
    /\ landcover_tif = Absent
    /\ sensitivity_csv = Absent /\ adaptive_capacity_csv = Absent
    /\ exposure_csv = Absent
    /\ hvi_components_csv = Absent /\ hvi_geojson = Absent
    /\ hvi_regions_components_csv = Absent /\ hvi_regions_geojson = Absent
    /\ advisory = {}
    /\ col = <<>> /\ normed = <<>> /\ agg = <<>> /\ da_region = <<>> /\ before = <<>>
    /\ selected = <<>>

NextBBox == S4_Aggregate

SpecBBox == InitBBox /\ [][NextBBox]_vars

\* The points that carry a value, before the pre-filter (line 154).
ValuedPoints == DropNaWtlst(MergeDW(CleanD(Content(dmti_csv)), w))
UnitLayer == Content(da_gpkg).rows

\* C16: the pre-filter on the layer's bounding box rejects no point that
\* lies within a unit: the join (and so the per-unit mean, median and count)
\* is the one the exact predicate gives on all the points.
C16_BBoxFilterKeepsEveryPointWithinAUnit ==
    pc = "s4_written" =>
        /\ \A i \in DOMAIN ValuedPoints :
              (\E u \in DOMAIN UnitLayer : ValuedPoints[i].loc \in UnitLayer[u].cells)
              => ValuedPoints[i] \in Range(BBoxFilter(ValuedPoints, UnitLayer))
        /\ SJoinWithin(BBoxFilter(ValuedPoints, UnitLayer), UnitLayer)
              = SJoinWithin(ValuedPoints, UnitLayer)
        /\ agg = AggExposure(SJoinWithin(ValuedPoints, UnitLayer))

\* Both units received a point, and a third valued point fell outside the
\* bounding box of the layer and was rejected by the pre-filter.
C16_Witness ==
    /\ pc = "s4_written"
    /\ Len(agg) = 2
    /\ \E i \in DOMAIN ValuedPoints :
          ValuedPoints[i] \notin Range(BBoxFilter(ValuedPoints, UnitLayer))

---------------------------------------------------------------------------
(* SpecChunks: the chunk loop of stage 2 on every census file of up to     *)
(* MaxRowsC rows drawn from rows that pass or fail each of the filters     *)

MaxRowsC == 4

\* A row of each kind: kept; kept once its padded label is trimmed; kept
\* with its level in capitals; of a coarser level; of a label of no
\* interest; of a unit outside the layer; of an aggregate dissemination
\* area (whose identifier is not a unit's).
ChunkRows ==
    {CensusRow(IdA, "Dissemination area", "Population, 2021", Num(100), Null),
     CensusRow(IdA, "Dissemination area", "Unemployment rate ", Null, Num(8)),
     CensusRow(IdB, "DISSEMINATION AREA", "65 to 74 years", Num(10), Null),
     CensusRow(IdA, "Province", "Population, 2021", Num(5000), Null),
     CensusRow(IdB, "Dissemination area", "Total - Age groups", Num(300), Null),
     CensusRow(IdX, "Dissemination area", "Population, 2021", Num(50), Null),
     CensusRow(IdX, "Aggregate dissemination area", "Population, 2021", Num(900), Null)}

InitChunks ==
    /\ pc = "s2_start"
    /\ rc = NeverRun
    /\ census_csv \in {File(t) : t \in SeqsUpTo(ChunkRows, MaxRowsC)}
    /\ da_gpkg = File(SampleLayer)
    /\ da_shp = File(<<>>) /\ landcover_tif = File(<<>>)
    /\ wtlst_csv = File(<<>>) /\ dmti_csv = File(<<>>) /\ argsort = <<>>
    /\ admin_shp = Absent
    /\ sensitivity_csv = Absent /\ adaptive_capacity_csv = Absent
    /\ exposure_csv = Absent
    /\ hvi_components_csv = Absent /\ hvi_geojson = Absent
    /\ hvi_regions_components_csv = Absent /\ hvi_regions_geojson = Absent
    /\ advisory = {}
    /\ NoLocals

\* Lines 74-168: the chunk loop and the concatenation of what it selected.
S2_Select ==
    /\ pc = "s2_start"
    /\ selected' = Concat(SelectedChunks(Content(census_csv),
                                         IdsOf(Content(da_gpkg).rows)))
    /\ pc' = "s2_selected"
    /\ UNCHANGED <<rc, varsRaw, varsOut, col, normed, w, agg, da_region, before>>

NextChunks == S2_Select

SpecChunks == InitChunks /\ [][NextChunks]_vars

\* The three conditions of C17 on a source row.
FinestLevel(r) == r.GEO_LEVEL \in {"Dissemination area", "DISSEMINATION AREA"}
LabelOfInterest(r) ==
    \E n \in NAMES_WE_CARE :
        r.CHARACTERISTIC_NAME \in {n, "  " \o n, n \o " "}
InUniverse(r) == r.DGUID \in IdsOf(Content(da_gpkg).rows)
Wanted(r) == FinestLevel(r) /\ LabelOfInterest(r) /\ InUniverse(r)

SourceColumns(r) == [x \in (DOMAIN r) \ {"indicator_key"} |-> r[x]]

---------------------------------------------------------------------------
(* SpecSensitivity: stage 2 on census files in which two units of a        *)
(* three-unit layer have or lack a row for each of the four indicators     *)

OptRow(present, row) == IF present THEN <<row>> ELSE <<>>
DaRow(id, name, count, rate) == CensusRow(id, "Dissemination area", name, count, rate)

\* The rows of a unit: its population, then the indicators it has.
UnitCensus(id, pop, has, unemp, lowinc, seniors, alone) ==
    <<DaRow(id, "Population, 2021", pop, Null)>>
    \o OptRow(has[1], DaRow(id, "Unemployment rate", Null, unemp))
    \o OptRow(has[2], DaRow(id, LowIncomeName, Null, lowinc))
    \o OptRow(has[3], DaRow(id, "65 to 74 years", seniors, Null))
    \o OptRow(has[4], DaRow(id, "Living alone", alone, Null))

InitSensitivity ==
    /\ pc = "s2_start"
    /\ rc = NeverRun
    /\ \E ha \in [1..4 -> BOOLEAN], hc \in [1..4 -> BOOLEAN],
          pa \in {Num(100), Zero} :
          census_csv =
             File(UnitCensus(IdA, pa, ha, Num(8), Num(10), Num(10), Num(30))
                  \o UnitCensus(IdB, Num(300), [k \in 1..4 |-> TRUE],
                                Num(4), Num(20), Num(60), Num(30))
                  \o UnitCensus(IdC, Num(200), hc, Num(6), Num(15), Num(50), Num(10)))
    /\ da_gpkg = File(CompositeLayer)
    /\ da_shp = File(<<>>) /\ landcover_tif = File(<<>>)
    /\ wtlst_csv = File(<<>>) /\ dmti_csv = File(<<>>) /\ argsort = <<>>
    /\ admin_shp = Absent
    /\ sensitivity_csv = Absent /\ adaptive_capacity_csv = Absent
    /\ exposure_csv = Absent
    /\ hvi_components_csv = Absent /\ hvi_geojson = Absent
    /\ hvi_regions_components_csv = Absent /\ hvi_regions_geojson = Absent
    /\ advisory = {}
    /\ NoLocals

S2_Run ==
    /\ pc = "s2_start"
    /\ Stage2
    /\ pc' = "s2_done"
    /\ UNCHANGED <<varsRaw, da_gpkg, adaptive_capacity_csv, exposure_csv,
                   hvi_components_csv, hvi_geojson, hvi_regions_components_csv,
                   hvi_regions_geojson, varsLocal>>

NextSensitivity == S2_Run

SpecSensitivity == InitSensitivity /\ [][NextSensitivity]_vars

SensitivityTable == Content(sensitivity_csv)
\* The normalized components of a row of sensitivity.csv that are not null.
PresentComponents(r) ==
    SelectSeq(<<r.unemployment_rate_n01, r.low_income_rate_n01,
                r.pct_seniors_65plus_n01, r.pct_living_alone_n01>>, NotNull)

\* C18: the sensitivity index of a unit is the mean of its non-null
\* normalized components (of three when one is missing), and is null only
\* when all four are null.
C18_SensitivityIsMeanOfPresentComponents ==
    (pc = "s2_done" /\ rc[2] = 0) =>
        \A i \in DOMAIN SensitivityTable :
            LET present == PresentComponents(SensitivityTable[i])
                index == SensitivityTable[i].sensitivity_index
            IN  /\ IsNull(index) <=> present = <<>>
                /\ present # <<>> =>
                      FMul(index, Num(Len(present))) = FSum(present)

\* One unit lacks exactly one indicator and has the mean of the other three
\* as its index, which is neither 0 nor 1; another unit lacks all four and
\* has a null index.
C18_Witness ==
    /\ pc = "s2_done" /\ rc[2] = 0
    /\ \E i \in DOMAIN SensitivityTable :
          /\ Len(PresentComponents(SensitivityTable[i])) = 3
          /\ IsNull(SensitivityTable[i].low_income_rate_n01)
          /\ FLt(Zero, SensitivityTable[i].sensitivity_index)
          /\ FLt(SensitivityTable[i].sensitivity_index, One)
    /\ \E i \in DOMAIN SensitivityTable :
          /\ PresentComponents(SensitivityTable[i]) = <<>>
          /\ IsNull(SensitivityTable[i].sensitivity_index)

---------------------------------------------------------------------------
(* SpecZeroPoints: stage 4 and then stage 5 on a three-unit layer, every   *)
(* placement of three postal codes' points, and identifiers that are digit *)
(* strings or end in a letter                                              *)

ZeroUnits ==
    {<<[DGUID |-> ia, cells |-> {1}, rep |-> 1, simp |-> {1}],
       [DGUID |-> ib, cells |-> {2, 3}, rep |-> 2, simp |-> {2, 3}],
       [DGUID |-> ic, cells |-> {4}, rep |-> 4, simp |-> {4}]>> :
        ia \in {<<1, 1, 0>>, IdA}, ib \in {<<0, 2, 0>>, IdB}, ic \in {<<0, 1, 0>>, IdC}}

InitZeroPoints ==
    /\ pc = "z4_start"
    /\ rc = NeverRun
    /\ wtlst_csv = File(SampleWtlst)
    /\ argsort \in SortPicks(CleanW(Content(wtlst_csv)))
    /\ dmti_csv \in {File(d) : d \in BBoxPoints}
    /\ \E u \in ZeroUnits :
          /\ da_gpkg = File(Layer(u, <<Region("Burnaby", Cells)>>))
          /\ sensitivity_csv =
                File(SensRows(u[1].DGUID, Num(100), <<Frac(4, 5)>>)
                     \o SensRows(u[2].DGUID, Num(300), <<Frac(1, 2)>>)
                     \o SensRows(u[3].DGUID, Num(200), <<One>>))
          /\ adaptive_capacity_csv =
                File(AdaptRows(u[1].DGUID, <<Frac(3, 10)>>)
                     \o AdaptRows(u[2].DGUID, <<Zero>>)
                     \o AdaptRows(u[3].DGUID, <<Frac(1, 2)>>))
    /\ admin_shp = File(AdminFile(<<Region("Burnaby", Cells)>>))
    /\ da_shp = File(<<>>) /\ census_csv = File(<<>>) /\ landcover_tif = File(<<>>)
    /\ exposure_csv = Absent
    /\ hvi_components_csv = Absent /\ hvi_geojson = Absent
    /\ hvi_regions_components_csv = Absent /\ hvi_regions_geojson = Absent
    /\ advisory = {}
    /\ NoLocals

Z4_Run ==
    /\ pc = "z4_start"
    /\ Stage4
    /\ pc' = "z4_done"
    /\ UNCHANGED <<varsRaw, da_gpkg, sensitivity_csv, adaptive_capacity_csv,
                   hvi_components_csv, hvi_geojson, hvi_regions_components_csv,
                   hvi_regions_geojson, varsLocal>>

Z5_Run ==
    /\ pc = "z4_done"
    /\ Stage5
    /\ pc' = "z5_done"
    /\ UNCHANGED <<varsRaw, da_gpkg, sensitivity_csv, adaptive_capacity_csv,
                   exposure_csv, col, normed, w, agg, before, selected>>

NextZeroPoints == Z4_Run \/ Z5_Run

SpecZeroPoints == InitZeroPoints /\ [][NextZeroPoints]_vars

\* The valid measurement points of the input files: the coordinate rows
\* with a location and a value (lines 139-154).
MeasurementPoints ==
    DropNaWtlst(MergeDW(CleanD(Content(dmti_csv)),
                        DedupW(CleanW(Content(wtlst_csv)), argsort)))

\* The identifiers of the units that contain none of them.
PointlessIds ==
    {UnitLayer[u].DGUID : u \in {v \in DOMAIN UnitLayer :
        \A i \in DOMAIN MeasurementPoints :
            MeasurementPoints[i].loc \notin UnitLayer[v].cells}}

\* C19: a unit that contains no valid measurement point has no row in
\* exposure.csv, and in the composite it is present with a null
\* exposure_index, has_exposure and hvi_complete false and a null hvi_raw.
C19_PointlessUnitAbsentThenNull ==
    /\ (pc \in {"z4_done", "z5_done"} /\ rc[4] = 0) =>
          \A id \in PointlessIds : RowsOf(Content(exposure_csv), id) = <<>>
    /\ (pc = "z5_done" /\ rc[4] = 0 /\ Exists(hvi_components_csv)) =>
          \A id \in PointlessIds :
             /\ RowsOf(Components, id) # <<>>
             /\ \A r \in Range(RowsOf(Components, id)) :
                   /\ IsNull(r.exposure_index)
                   /\ ~r.has_exposure
                   /\ ~r.hvi_complete
                   /\ IsNull(r.hvi_raw)

---------------------------------------------------------------------------
(* SpecZonal: stage 3 on a three-unit layer and every raster of the strip  *)
(* whose pixels are nodata, a class that is not vegetation, or one of two  *)
(* vegetation classes                                                      *)

PixelCodes == {NODATA_VALUE, 1, 6, 8}

InitZonal ==
    /\ pc = "s3_start"
    /\ rc = NeverRun
    /\ landcover_tif \in {File([crs |-> TRUE, px |-> px]) : px \in [Cells -> PixelCodes]}
    /\ da_gpkg = File(CompositeLayer)
    /\ da_shp = File(<<>>) /\ census_csv = File(<<>>)
    /\ wtlst_csv = File(<<>>) /\ dmti_csv = File(<<>>) /\ argsort = <<>>
    /\ admin_shp = Absent
    /\ sensitivity_csv = Absent /\ adaptive_capacity_csv = Absent
    /\ exposure_csv = Absent
    /\ hvi_components_csv = Absent /\ hvi_geojson = Absent
    /\ hvi_regions_components_csv = Absent /\ hvi_regions_geojson = Absent
    /\ advisory = {}
    /\ NoLocals

S3_Run ==
    /\ pc = "s3_start"
    /\ Stage3
    /\ pc' = "s3_done"
    /\ UNCHANGED <<varsRaw, da_gpkg, sensitivity_csv, exposure_csv,
                   hvi_components_csv, hvi_geojson, hvi_regions_components_csv,
                   hvi_regions_geojson, varsLocal>>

NextZonal == S3_Run

SpecZonal == InitZonal /\ [][NextZonal]_vars

AdaptiveRows == Content(adaptive_capacity_csv)
\* The pixels of the raster under the unit of a row, by kind.
PixelsUnder(r) ==
    LET u == CHOOSE v \in Range(UnitLayer) : v.DGUID = r.DGUID
    IN  [c \in u.cells |-> Content(landcover_tif).px[c]]
DataUnder(r) == {c \in DOMAIN PixelsUnder(r) : PixelsUnder(r)[c] # NODATA_VALUE}
GreenUnder(r) == {c \in DOMAIN PixelsUnder(r) : PixelsUnder(r)[c] \in GREEN_CLASSES}
ClassFractions(r) ==
    {r.frac_coniferous, r.frac_deciduous, r.frac_shrub,
     r.frac_modified_herb, r.frac_natural_herb}

\* C20: in adaptive_capacity.csv a unit with no data pixel has null
\* total_pixels, null class fractions and a null green_frac; a unit with a
\* data pixel has the number of its data pixels (nodata left out) as
\* total_pixels, and green_frac exactly 0 when none of them is vegetation.
C20_NullAndZeroKeptDistinct ==
    (pc = "s3_done" /\ rc[3] = 0) =>
        \A i \in DOMAIN AdaptiveRows :
            LET r == AdaptiveRows[i]
            IN  /\ DataUnder(r) = {} =>
                      /\ IsNull(r.total_pixels)
                      /\ ClassFractions(r) = {Null}
                      /\ IsNull(r.green_frac)
                /\ DataUnder(r) # {} =>
                      /\ r.total_pixels = Num(Cardinality(DataUnder(r)))
                      /\ Null \notin ClassFractions(r)
                      /\ GreenUnder(r) = {} => r.green_frac = Zero
                      /\ GreenUnder(r) # {} => FLt(Zero, r.green_frac)

\* One unit lies on nodata only and has a null green_frac; another holds a
\* nodata pixel and a pixel that is not vegetation, and has total_pixels 1
\* and green_frac 0.
C20_Witness ==
    /\ pc = "s3_done" /\ rc[3] = 0
    /\ \E i \in DOMAIN AdaptiveRows :
          /\ DataUnder(AdaptiveRows[i]) = {}
          /\ IsNull(AdaptiveRows[i].green_frac)
    /\ \E i \in DOMAIN AdaptiveRows :
          /\ DataUnder(AdaptiveRows[i]) # DOMAIN PixelsUnder(AdaptiveRows[i])
          /\ AdaptiveRows[i].total_pixels = One
          /\ AdaptiveRows[i].green_frac = Zero

---------------------------------------------------------------------------
(* SpecPaths: the stages run in any order, any number of times, each write *)
(* addressed by the file name the stage gives it under DATA_INTERMEDIATE   *)

\* The file names of the artifacts, in the order of Artifacts.
ArtifactPaths ==
    <<"da.gpkg", "sensitivity.csv", "adaptive_capacity.csv", "exposure.csv",
      "hvi_components.csv", "hvi.geojson", "hvi_regions_components.csv",
      "hvi_regions.geojson">>

\* Mutant of OutCsv: every stage names its table exposure.csv.
OutCsv_exposure(k) == "exposure.csv"

\* out_csv of stage k (2..5).
OutCsv(k) ==
    CASE k = 2 -> "sensitivity.csv"
      [] k = 3 -> "adaptive_capacity.csv"
      [] k = 4 -> "exposure.csv"
      [] k = 5 -> "hvi_components.csv"

WriteTo(path, file) == [path |-> path, file |-> file]

\* The writes of one run of each stage, in program order.
Writes1(run) == IF run.wrote THEN <<WriteTo("da.gpkg", run.gpkg)>> ELSE <<>>
Writes2(run) == IF run.wrote THEN <<WriteTo(OutCsv(2), run.csv)>> ELSE <<>>
Writes3(run) == IF run.wrote THEN <<WriteTo(OutCsv(3), run.csv)>> ELSE <<>>
Writes4 ==
    IF Fails4 THEN <<>>
    ELSE <<WriteTo(OutCsv(4),
                   File(ExposureTable(DedupW(CleanW(Content(wtlst_csv)), argsort),
                                      Content(dmti_csv), Content(da_gpkg).rows)))>>
Writes5(run) ==
    (IF run.wrote_da
     THEN <<WriteTo(OutCsv(5), run.components), WriteTo("hvi.geojson", run.geojson)>>
     ELSE <<>>)
    \o (IF run.wrote_region
        THEN <<WriteTo("hvi_regions_components.csv", run.regions_components),
               WriteTo("hvi_regions.geojson", run.regions_geojson)>>
        ELSE <<>>)

\* What a path holds after a list of writes: the file of the last write to
\* it, or what it held.
RECURSIVE Stored(_, _, _)
Stored(old, path, writes) ==
    IF writes = <<>> THEN old
    ELSE Stored(IF Head(writes).path = path THEN Head(writes).file ELSE old,
                path, Tail(writes))

StoreAll(writes) ==
    /\ da_gpkg' = Stored(da_gpkg, ArtifactPaths[1], writes)
    /\ sensitivity_csv' = Stored(sensitivity_csv, ArtifactPaths[2], writes)
    /\ adaptive_capacity_csv' = Stored(adaptive_capacity_csv, ArtifactPaths[3], writes)
    /\ exposure_csv' = Stored(exposure_csv, ArtifactPaths[4], writes)
    /\ hvi_components_csv' = Stored(hvi_components_csv, ArtifactPaths[5], writes)
    /\ hvi_geojson' = Stored(hvi_geojson, ArtifactPaths[6], writes)
    /\ hvi_regions_components_csv' =
          Stored(hvi_regions_components_csv, ArtifactPaths[7], writes)
    /\ hvi_regions_geojson' = Stored(hvi_regions_geojson, ArtifactPaths[8], writes)

Path1 ==
    \E run \in {Main1} :
        /\ before' = Snapshot
        /\ rc' = [rc EXCEPT ![1] = run.rc]
        /\ StoreAll(Writes1(run))
        /\ advisory' = IF run.wrote THEN advisory \cup {"da_preview.geojson"}
                       ELSE advisory
        /\ pc' = "stage1"
        /\ UNCHANGED <<varsRaw, col, normed, w, agg, da_region, selected>>

Path2 ==
    \E run \in {Main2} :
        /\ before' = Snapshot
        /\ rc' = [rc EXCEPT ![2] = run.rc]
        /\ StoreAll(Writes2(run))
        /\ advisory' = advisory \cup run.reports
        /\ pc' = "stage2"
        /\ UNCHANGED <<varsRaw, col, normed, w, agg, da_region, selected>>

Path3 ==
    \E run \in {Main3} :
        /\ before' = Snapshot
        /\ rc' = [rc EXCEPT ![3] = run.rc]
        /\ StoreAll(Writes3(run))
        /\ advisory' = advisory \cup run.reports
        /\ pc' = "stage3"
        /\ UNCHANGED <<varsRaw, col, normed, w, agg, da_region, selected>>

Path4 ==
    \E writes \in {Writes4} :
        /\ before' = Snapshot
        /\ rc' = [rc EXCEPT ![4] = IF Fails4 THEN 1 ELSE 0]
        /\ StoreAll(writes)
        /\ advisory' = IF Fails4 THEN advisory
                       ELSE advisory \cup {"exposure_points_preview.geojson",
                                           "04_exposure_debug_report.txt"}
        /\ pc' = "stage4"
        /\ UNCHANGED <<varsRaw, col, normed, w, agg, da_region, selected>>

Path5 ==
    \E run \in {Main5} :
        /\ before' = Snapshot
        /\ rc' = [rc EXCEPT ![5] = run.rc]
        /\ StoreAll(Writes5(run))
        /\ advisory' = IF run.rc = 0 THEN advisory \cup {"05_hvi_debug_report.txt"}
                       ELSE advisory
        /\ da_region' = run.da_region
        /\ pc' = "stage5"
        /\ UNCHANGED <<varsRaw, col, normed, w, agg, selected>>

NextPaths == Path1 \/ Path2 \/ Path3 \/ Path4 \/ Path5

SpecPaths == InitRerun /\ [][NextPaths]_vars

\* C21: a run of stage k, whether it succeeds or fails, leaves every
\* artifact that is not an output of stage k as it was: stages 2-5 leave
\* da.gpkg unchanged, and stage 5 leaves the three component tables
\* unchanged.
C21_StagesWriteOnlyOwnArtifacts ==
    \A k \in Stages :
        pc = StageName[k] =>
            \A a \in (DOMAIN Artifacts) \ Outputs(k) : Artifacts[a] = before.files[a]

\* A failed run of stage 5 that wrote its unit-level table, the unit package
\* and the three component tables being there before and after.
C21_Witness ==
    /\ pc = "stage5" /\ rc[5] = 1
    /\ hvi_components_csv # before.files[5]
    /\ Exists(da_gpkg) /\ Exists(sensitivity_csv)
    /\ Exists(adaptive_capacity_csv) /\ Exists(exposure_csv)

---------------------------------------------------------------------------
(* SpecEmpty: stages 1 and 2, in any order and repeatedly, on unit files   *)
(* and region masks that may leave no unit, and census files that may      *)
(* leave no row; da.gpkg and sensitivity.csv may be there from an earlier  *)
(* run                                                                     *)

EmptyCensuses ==
    {SampleCensus, ProvinceCensus, <<>>,
     <<CensusRow(IdA, "Dissemination area", "Total - Age groups", Num(100), Null),
       CensusRow(IdB, "Dissemination area", "Median age", Num(40), Null)>>,
     <<CensusRow(IdX, "Dissemination area", "Population, 2021", Num(50), Null),
       CensusRow(IdA, "Census subdivision", "Population, 2021", Num(900), Null)>>}

InitEmpty ==
    /\ pc = "idle"
    /\ rc = NeverRun
    /\ da_shp \in {File([crs |-> TRUE, cols |-> {"DGUID", "DAUID"},
                         rows |-> <<u, RawUnit(IdB, {4}, 4)>>]) : u \in ValidUnits(IdA)}
    /\ admin_shp \in {File(AdminFile(<<Region("Burnaby", {1, 2})>>)),
                      File(AdminFile(<<Region("Anmore", {3})>>))}
    /\ census_csv \in {File(c) : c \in EmptyCensuses}
    /\ landcover_tif = File(SampleRaster)
    /\ wtlst_csv = File(SampleWtlst) /\ dmti_csv = File(SampleDmti)
    /\ argsort = <<>>
    /\ da_gpkg \in {Absent, File(CompositeLayer)}
    /\ sensitivity_csv \in {Absent, File(SensRows(IdA, Num(100), <<Frac(1, 2)>>))}
    /\ adaptive_capacity_csv = Absent /\ exposure_csv = Absent
    /\ hvi_components_csv = Absent /\ hvi_geojson = Absent
    /\ hvi_regions_components_csv = Absent /\ hvi_regions_geojson = Absent
    /\ advisory = {}
    /\ NoLocals

NextEmpty == Again1 \/ Again2

SpecEmpty == InitEmpty /\ [][NextEmpty]_vars

\* No unit of the unit file has its representative point in the mask.
NoUnitSurvives == \A i \in DOMAIN RawUnits : RawUnits[i].rep \notin RegionMask
\* No row of the census file passes the level, label and identifier tests.
NoRowSurvives == SelectSeq(Content(census_csv), Wanted) = <<>>

\* C22: when no unit survives the spatial filter, stage 1 returns failure
\* and da.gpkg is not written; when no census row survives the filter
\* cascade, stage 2 returns failure and sensitivity.csv is not written.
C22_EmptyResultHaltsWithoutArtifact ==
    /\ (pc = "stage1" /\ NoUnitSurvives) =>
          rc[1] = 1 /\ da_gpkg = before.files[1]
    /\ (pc = "stage2" /\ Exists(da_gpkg) /\ NoRowSurvives) =>
          rc[2] = 1 /\ sensitivity_csv = before.files[2]

\* Stage 1 failed on a mask that holds no unit and wrote no package; then
\* stage 2, on a package of an earlier run and a census file that has rows
\* of the finest level but none for a unit of the layer, failed and wrote
\* no table.
C22_Witness ==
    /\ pc = "stage2" /\ rc[1] = 1 /\ rc[2] = 1
    /\ NoUnitSurvives /\ NoRowSurvives
    /\ Exists(da_gpkg)
    /\ \E i \in DOMAIN Content(census_csv) : FinestLevel(Content(census_csv)[i])
    /\ sensitivity_csv = Absent

---------------------------------------------------------------------------
(* SpecJoinKey: the stages run in any order, any number of times, on a     *)
(* unit file that carries any of the four key columns, or none             *)

InitJoinKey ==
    /\ pc = "idle"
    /\ rc = NeverRun
    /\ da_shp \in {File([crs |-> TRUE, cols |-> k \cup {"LANDAREA"},
                         rows |-> <<RawUnit(IdA, {1, 2}, 1), RawUnit(IdB, {4}, 4),
                                    RawUnit(IdC, {5}, 5)>>]) :
                      k \in SUBSET Range(PREFERRED_DA_KEYS)}
    /\ admin_shp = File(SampleAdmin)
    /\ census_csv = File(SampleCensus)
    /\ landcover_tif = File(SampleRaster)
    /\ wtlst_csv = File(SampleWtlst)
    /\ argsort \in SortPicks(CleanW(Content(wtlst_csv)))
    /\ dmti_csv = File(SampleDmti)
    /\ NoArtifacts
    /\ NoLocals

NextJoinKey == Again1 \/ Again2 \/ Again3 \/ Again4 \/ Again5

SpecJoinKey == InitJoinKey /\ [][NextJoinKey]_vars

\* The names of the priority list that are columns of the unit file.
KeysPresent ==
    {i \in DOMAIN PREFERRED_DA_KEYS : PREFERRED_DA_KEYS[i] \in Content(da_shp).cols}
\* The first of them in list order.
FirstKeyPresent ==
    PREFERRED_DA_KEYS[CHOOSE i \in KeysPresent : \A j \in KeysPresent : i <= j]

---------------------------------------------------------------------------
(* SpecUnique: the stages run in any order, any number of times, on three  *)
(* units with distinct identifiers that are digit strings or end in a      *)
(* letter                                                                  *)

InitUnique ==
    /\ pc = "idle"
    /\ rc = NeverRun
    /\ \E ia \in {<<1, 1, 0>>, IdA}, ib \in {<<0, 2, 0>>, IdB}, ic \in {<<0, 1, 0>>, IdC} :
          /\ da_shp = File([crs |-> TRUE, cols |-> {"DGUID", "DAUID"},
                            rows |-> <<RawUnit(ia, {1, 2}, 1), RawUnit(ib, {3}, 3),
                                       RawUnit(ic, {4}, 4)>>])
          /\ census_csv =
                File(UnitCensus(ia, Num(100), [k \in 1..4 |-> TRUE],
                                Num(8), Num(10), Num(10), Num(30))
                     \o UnitCensus(ib, Num(300), [k \in 1..4 |-> TRUE],
                                   Num(4), Num(20), Num(60), Num(30))
                     \o UnitCensus(ic, Num(200), [k \in 1..4 |-> k # 2],
                                   Num(6), Num(15), Num(50), Num(10)))
    /\ admin_shp = File(SampleAdmin)
    /\ landcover_tif = File(SampleRaster)
    /\ wtlst_csv = File(SampleWtlst)
    /\ argsort \in SortPicks(CleanW(Content(wtlst_csv)))
    /\ dmti_csv = File(SampleDmti)
    /\ NoArtifacts
    /\ NoLocals

NextUnique == Again1 \/ Again2 \/ Again3 \/ Again4 \/ Again5

SpecUnique == InitUnique /\ [][NextUnique]_vars

\* No two rows of a table carry the same identifier.
UniqueIds(table) == \A i, j \in DOMAIN table : table[i].DGUID = table[j].DGUID => i = j

\* C24: the identifiers of the layer being unique, each of sensitivity.csv,
\* adaptive_capacity.csv and exposure.csv holds at most one row per
\* identifier, and the composite holds exactly one row per unit of the
\* layer.
C24_JoinsNeverMultiplyRows ==
    (Exists(da_gpkg) /\ UniqueIds(UnitLayer)) =>
        /\ Exists(sensitivity_csv) => UniqueIds(Content(sensitivity_csv))
        /\ Exists(adaptive_capacity_csv) => UniqueIds(Content(adaptive_capacity_csv))
        /\ Exists(exposure_csv) => UniqueIds(Content(exposure_csv))
        /\ Exists(hvi_components_csv) =>
              \A id \in IdsOf(UnitLayer) : Len(RowsOf(Components, id)) = 1

---------------------------------------------------------------------------
(* SpecRanges: the five stages run once each, in order, on three units     *)
(* with varying census values, land cover and measured values              *)

InitRanges ==
    /\ pc = "idle"
    /\ rc = NeverRun
    /\ da_shp = File([crs |-> TRUE, cols |-> {"DGUID", "DAUID"},
                      rows |-> <<RawUnit(IdA, {1, 2}, 1), RawUnit(IdB, {3}, 3),
                                 RawUnit(IdC, {4}, 4)>>])
    /\ \E ua \in {Num(8), Num(2)}, pcc \in {Num(200), Zero},
          hc \in {[k \in 1..4 |-> TRUE], [k \in 1..4 |-> k # 2], [k \in 1..4 |-> FALSE]} :
          census_csv =
             File(UnitCensus(IdA, Num(100), [k \in 1..4 |-> TRUE],
                             ua, Num(10), Num(10), Num(30))
                  \o UnitCensus(IdB, Num(300), [k \in 1..4 |-> TRUE],
                                Num(4), Num(20), Num(60), Num(30))
                  \o UnitCensus(IdC, pcc, hc, Num(6), Num(15), Num(50), Num(10)))
    /\ admin_shp = File(SampleAdmin)
    /\ landcover_tif \in {File([crs |-> TRUE, px |-> px]) :
                             px \in [1..4 -> {NODATA_VALUE, 1, 6}]}
    /\ wtlst_csv \in {File(<<[postalcode |-> <<1, "raw">>, wtlst |-> v],
                             [postalcode |-> <<2, "clean">>, wtlst |-> Num(20)],
                             [postalcode |-> <<1, "clean">>, wtlst |-> Num(30)],
                             [postalcode |-> <<3, "clean">>, wtlst |-> Num(25)]>>) :
                         v \in {Num(45), Num(90)}}
    /\ argsort \in SortPicks(CleanW(Content(wtlst_csv)))
    /\ dmti_csv = File(<<[postalcode |-> <<1, "raw">>, loc |-> 1],
                          [postalcode |-> <<2, "clean">>, loc |-> 3],
                          [postalcode |-> <<3, "clean">>, loc |-> 4],
                          [postalcode |-> <<3, "raw">>, loc |-> 5]>>)
    /\ NoArtifacts
    /\ NoLocals

InOrder1 == pc = "idle" /\ Run1
InOrder2 == pc = "stage1" /\ Run2
InOrder3 == pc = "stage2" /\ Run3
InOrder4 == pc = "stage3" /\ Run4
InOrder5 == pc = "stage4" /\ Run5

NextRanges == InOrder1 \/ InOrder2 \/ InOrder3 \/ InOrder4 \/ InOrder5

SpecRanges == InitRanges /\ [][NextRanges]_vars


InUnitInterval(v) == FLe(Zero, v) /\ FLe(v, One)

\* C25: a non-null sensitivity_index lies in [0, 1]; a non-null hvi_raw
\* computed from the tables of stages 2-4 lies in [-1, 1], and is negative
\* exactly when exposure_index is above 0 and adaptive_capacity_index is
\* above sensitivity_index.
C25_IndexRanges ==
    /\ Exists(sensitivity_csv) =>
          \A i \in DOMAIN SensitivityTable :
             NotNull(SensitivityTable[i].sensitivity_index) =>
                InUnitInterval(SensitivityTable[i].sensitivity_index)
    /\ Exists(hvi_components_csv) =>
          \A i \in DOMAIN Components :
             NotNull(Components[i].hvi_raw) =>
                /\ FLe(Num(-1), Components[i].hvi_raw)
                /\ FLe(Components[i].hvi_raw, One)
                /\ FLt(Components[i].hvi_raw, Zero) <=>
                      /\ FLt(Zero, Components[i].exposure_index)
                      /\ FLt(Components[i].sensitivity_index,
                             Components[i].adaptive_capacity_index)

\* The composite holds a unit with a negative hvi_raw and a unit with a
\* positive one, and sensitivity.csv an index strictly between 0 and 1.
C25_Witness ==
    /\ Exists(hvi_components_csv) /\ Exists(sensitivity_csv)
    /\ \E i \in DOMAIN Components :
          NotNull(Components[i].hvi_raw) /\ FLt(Components[i].hvi_raw, Zero)
    /\ \E i \in DOMAIN Components :
          NotNull(Components[i].hvi_raw) /\ FLt(Zero, Components[i].hvi_raw)
    /\ \E i \in DOMAIN SensitivityTable :
          /\ NotNull(SensitivityTable[i].sensitivity_index)
          /\ FLt(Zero, SensitivityTable[i].sensitivity_index)
          /\ FLt(SensitivityTable[i].sensitivity_index, One)

---------------------------------------------------------------------------
(* Claims about the region output of stage 5 (checked under SpecRegion)    *)

RegionFeatures == Content(hvi_regions_geojson)

\* What C26 asks of the region files once they are written.
RegionsKept ==
    /\ Len(RegionFeatures) = Len(Regions)
    /\ \A j \in DOMAIN Regions :
          /\ RegionFeatures[j].FullName = Regions[j].FullName
          /\ Contributors(Regions[j].FullName) = <<>> =>
                /\ IsNull(RegionFeatures[j].region_hvi_raw_pw)
                /\ IsNull(RegionFeatures[j].region_hvi_n01)
                /\ \A k \in DOMAIN RegionTable :
                      RegionTable[k].FullName # Regions[j].FullName

\* C26: once stage 5 has assigned the units to regions, the region output
\* holds every polygon of the boundary file, once each and in file order; a
\* region without a qualifying unit is there with null region_hvi_raw_pw and
\* region_hvi_n01, and has no row in the region statistics table.
C26_EveryRegionKept ==
    (pc = "s5_done" /\ da_region # <<>>) =>
        /\ Exists(hvi_regions_geojson) /\ Exists(hvi_regions_components_csv)
        /\ RegionsKept

\* The same on the runs that end in success.
C26_OnSuccess == (pc = "s5_done" /\ rc[5] = 0) => RegionsKept

=============================================================================
